---- MODULE Spec2Model ----
(***************************************************************************)
(* Conversation cache (cache_manager.py), long-term summary compaction     *)
(* (update_deep_cache) and the provider dispatch with fallback             *)
(* (llm_manager.py and the provider classes) of Discordagent_PLANA.        *)
(*                                                                         *)
(* Texts are sequences of tokens.  A token is either an ordinary word, a   *)
(* blank, or one of the fixed message templates of bot_constants.py; the   *)
(* substring tests of the code ("keyword in text") are token membership.   *)
(***************************************************************************)
EXTENDS Integers, Sequences, FiniteSets, TLC

\* ---------------------------------------------------------------- bounds
MaxCacheLimit == 2
MaxRequests == 4

Channels == {"c1", "c2"}
Reqs == {"r1", "r2"}
Tasks == {"t1", "t2"}

VARIABLES
    CACHE_LIMIT,    \* config.CACHE_LIMIT
    cache,          \* cache/<channel_id>.json: the persisted window of each channel
    handoffs,       \* every asyncio.create_task(update_deep_cache(ch, old)) made so far
    req,            \* the handle_mention coroutines: position and captured locals
    nreq,           \* number of requests started
    appended,       \* per channel, the turns handed to save_cache as new, in order
    last_save,      \* the split computed by the most recent save_cache call
    llm_handler,    \* llm_manager._llm_handler: the active provider object
    dispatch,       \* one llm_manager.generate_response call: position, backend calls, result
    deep_cache,     \* deep_cache/<channel_id>.json: the summary file of each channel
    task,           \* the update_deep_cache coroutines: position and captured locals
    manager,        \* llm_manager: the registered providers, the active name, its calls
    view,           \* one FollowUpView: stopped or not, and its button_callback coroutines
    poll            \* one PollView: options, votes, closed, and the last answer sent

cacheVars == <<CACHE_LIMIT, cache, handoffs, req, nreq, appended, last_save>>
dispatchVars == <<llm_handler, dispatch>>
compactVars == <<deep_cache, task>>
uiVars == <<view, poll>>
vars == <<cacheVars, dispatchVars, compactVars, manager, uiVars>>

\* ------------------------------------------------------- python helpers
Min(a, b) == IF a < b THEN a ELSE b
Max(a, b) == IF a > b THEN a ELSE b

\* Python slice index normalisation: a negative index counts from the end,
\* and the result is clamped to 0..len.  -0 is 0.
PyIndex(i, len) == IF i < 0 THEN Max(len + i, 0) ELSE Min(i, len)

\* s[:stop]
SliceTo(s, stop) == SubSeq(s, 1, PyIndex(stop, Len(s)))

\* s[start:]
SliceFrom(s, start) == SubSeq(s, PyIndex(start, Len(s)) + 1, Len(s))

RECURSIVE Concat(_)
Concat(ss) == IF ss = <<>> THEN <<>> ELSE Head(ss) \o Concat(Tail(ss))

RECURSIVE SelectSeqBy(_, _)
SelectSeqBy(s, ch) ==
    IF s = <<>> THEN <<>>
    ELSE (IF Head(s).channel_id = ch THEN <<Head(s).old_history>> ELSE <<>>)
         \o SelectSeqBy(Tail(s), ch)

SeqToSet(s) == {s[i] : i \in 1..Len(s)}

\* ------------------------------------------------------ bot_constants.py
bot_constants ==
    [ ERROR_MSG_MAX_TEXT_SIZE |-> "ERROR_MSG_MAX_TEXT_SIZE",
      ERROR_MSG_MAX_IMAGE_SIZE |-> "ERROR_MSG_MAX_IMAGE_SIZE",
      ERROR_MSG_IMAGE_READ_FAIL |-> "ERROR_MSG_IMAGE_READ_FAIL",
      ERROR_MSG_ATTACHMENT_UNSUPPORTED |-> "ERROR_MSG_ATTACHMENT_UNSUPPORTED",
      ERROR_MSG_GEMINI_API_ERROR |-> "ERROR_MSG_GEMINI_API_ERROR",
      ERROR_MSG_GEMINI_INVALID_ARG |-> "ERROR_MSG_GEMINI_INVALID_ARG",
      ERROR_MSG_GEMINI_RESOURCE_EXHAUSTED |-> "ERROR_MSG_GEMINI_RESOURCE_EXHAUSTED",
      ERROR_MSG_GEMINI_BLOCKED_PROMPT |-> "ERROR_MSG_GEMINI_BLOCKED_PROMPT",
      ERROR_MSG_GEMINI_BLOCKED_RESPONSE |-> "ERROR_MSG_GEMINI_BLOCKED_RESPONSE",
      ERROR_MSG_GEMINI_UNKNOWN |-> "ERROR_MSG_GEMINI_UNKNOWN",
      ERROR_MSG_INTERNAL |-> "ERROR_MSG_INTERNAL",
      ERROR_MSG_PERMISSION_DENIED |-> "ERROR_MSG_PERMISSION_DENIED",
      ERROR_MSG_HISTORY_READ_FAIL |-> "ERROR_MSG_HISTORY_READ_FAIL",
      ERROR_MSG_LOWLOAD_UNAVAILABLE |-> "ERROR_MSG_LOWLOAD_UNAVAILABLE",
      ERROR_MSG_DEEP_CACHE_FAIL |-> "ERROR_MSG_DEEP_CACHE_FAIL",
      ERROR_MSG_COMMAND_FORMAT |-> "ERROR_MSG_COMMAND_FORMAT",
      ERROR_MSG_POLL_INVALID |-> "ERROR_MSG_POLL_INVALID",
      ERROR_MSG_TIMER_INVALID |-> "ERROR_MSG_TIMER_INVALID",
      ERROR_MSG_NO_CONTENT |-> "ERROR_MSG_NO_CONTENT",
      ERROR_MSG_FILE_SIZE_LIMIT |-> "ERROR_MSG_FILE_SIZE_LIMIT",
      ERROR_MSG_BUTTON_ERROR |-> "ERROR_MSG_BUTTON_ERROR",
      ERROR_MSG_CHANNEL_ERROR |-> "ERROR_MSG_CHANNEL_ERROR" ]

\* LLMProvider._is_error_message: the list of keywords
error_keywords ==
    { bot_constants.ERROR_MSG_MAX_TEXT_SIZE, bot_constants.ERROR_MSG_MAX_IMAGE_SIZE, bot_constants.ERROR_MSG_IMAGE_READ_FAIL,
      bot_constants.ERROR_MSG_ATTACHMENT_UNSUPPORTED, bot_constants.ERROR_MSG_GEMINI_API_ERROR,
      bot_constants.ERROR_MSG_GEMINI_INVALID_ARG, bot_constants.ERROR_MSG_GEMINI_RESOURCE_EXHAUSTED,
      bot_constants.ERROR_MSG_GEMINI_BLOCKED_PROMPT, bot_constants.ERROR_MSG_GEMINI_BLOCKED_RESPONSE,
      bot_constants.ERROR_MSG_GEMINI_UNKNOWN, bot_constants.ERROR_MSG_INTERNAL, bot_constants.ERROR_MSG_PERMISSION_DENIED,
      bot_constants.ERROR_MSG_HISTORY_READ_FAIL, bot_constants.ERROR_MSG_LOWLOAD_UNAVAILABLE,
      bot_constants.ERROR_MSG_DEEP_CACHE_FAIL, bot_constants.ERROR_MSG_COMMAND_FORMAT, bot_constants.ERROR_MSG_POLL_INVALID,
      bot_constants.ERROR_MSG_TIMER_INVALID, bot_constants.ERROR_MSG_NO_CONTENT, bot_constants.ERROR_MSG_FILE_SIZE_LIMIT,
      bot_constants.ERROR_MSG_BUTTON_ERROR, bot_constants.ERROR_MSG_CHANNEL_ERROR,
      "Error", "Failed", "Block", "Limit", "Problem", "Cannot", "Invalid",
      "Rate", "Access", "Permission", "Unavailable", "Connection", "Unsupported" }

\* LLMProvider._is_error_message(text): any(keyword in text ...)
_is_error_message(text) == \E i \in 1..Len(text) : text[i] \in error_keywords

\* ------------------------------------------------------------ the turns
\* {'role': ..., 'parts': [{'text': ...}]}; id is the order of creation, kept
\* to tell the turns apart when stating properties.
Turn(role, text, id) == [role |-> role, parts |-> <<[text |-> text]>>, id |-> id]

\* ---------------------------------------------------------------- base64
\* A bytes or str value is [type, value]: the bytes are numbers 0..255, the
\* characters of a base64 text are the numbers 0..63 of the alphabet and Pad.
Pad == 64

Bytes(value) == [type |-> "bytes", value |-> value]
Str(value) == [type |-> "str", value |-> value]

\* a variant of the encoding that leaves the padding out
RECURSIVE b64encode_unpadded(_)
b64encode_unpadded(b) ==
    IF b = <<>> THEN <<>>
    ELSE IF Len(b) = 1 THEN <<b[1] \div 4, (b[1] % 4) * 16>>
    ELSE IF Len(b) = 2
      THEN <<b[1] \div 4, (b[1] % 4) * 16 + b[2] \div 16, (b[2] % 16) * 4>>
    ELSE <<b[1] \div 4, (b[1] % 4) * 16 + b[2] \div 16,
           (b[2] % 16) * 4 + b[3] \div 64, b[3] % 64>>
         \o b64encode_unpadded(SubSeq(b, 4, Len(b)))

\* base64.b64encode(data).decode('utf-8')
RECURSIVE b64encode(_)
b64encode(b) ==
    IF b = <<>> THEN <<>>
    ELSE IF Len(b) = 1 THEN <<b[1] \div 4, (b[1] % 4) * 16, Pad, Pad>>
    ELSE IF Len(b) = 2
      THEN <<b[1] \div 4, (b[1] % 4) * 16 + b[2] \div 16, (b[2] % 16) * 4, Pad>>
    ELSE <<b[1] \div 4, (b[1] % 4) * 16 + b[2] \div 16,
           (b[2] % 16) * 4 + b[3] \div 64, b[3] % 64>>
         \o b64encode(SubSeq(b, 4, Len(b)))

\* base64.b64decode(text) of a text over the alphabet: [raised, value];
\* binascii.Error for a length that is no multiple of 4 or a misplaced padding
RECURSIVE b64decode(_)
b64decode(text) ==
    IF text = <<>> THEN [raised |-> FALSE, value |-> <<>>]
    ELSE IF Len(text) < 4 \/ text[1] = Pad \/ text[2] = Pad
      THEN [raised |-> TRUE, value |-> <<>>]
    ELSE IF text[3] = Pad
      THEN IF text[4] = Pad /\ Len(text) = 4
             THEN [raised |-> FALSE, value |-> <<text[1] * 4 + text[2] \div 16>>]
             ELSE [raised |-> TRUE, value |-> <<>>]
    ELSE IF text[4] = Pad
      THEN IF Len(text) = 4
             THEN [raised |-> FALSE,
                   value |-> <<text[1] * 4 + text[2] \div 16,
                               (text[2] % 16) * 16 + text[3] \div 4>>]
             ELSE [raised |-> TRUE, value |-> <<>>]
    ELSE LET rest == b64decode(SubSeq(text, 5, Len(text))) IN
         IF rest.raised THEN rest
         ELSE [raised |-> FALSE,
               value |-> <<text[1] * 4 + text[2] \div 16,
                           (text[2] % 16) * 16 + text[3] \div 4,
                           (text[3] % 4) * 64 + text[4]>> \o rest.value]

\* save_cache, the encoding loop over the parts of an entry: a text part is
\* written as text, an inline_data part whose data is bytes is written with
\* the data encoded, any other part is left out
RECURSIVE encoded_parts(_)
encoded_parts(parts) ==
    IF parts = <<>> THEN <<>>
    ELSE LET part == Head(parts) IN
         (IF "text" \in DOMAIN part THEN <<[text |-> part.text]>>
          ELSE IF "inline_data" \in DOMAIN part /\ part.inline_data.data.type = "bytes"
            THEN <<[inline_data |->
                      [mime_type |-> part.inline_data.mime_type,
                       data |-> Str(b64encode(part.inline_data.data.value))]]>>
          ELSE <<>>)
         \o encoded_parts(Tail(parts))

\* load_cache, the decoding loop over the parts of an entry: a text part is
\* kept, an inline_data part whose data is a str is decoded and left out when
\* b64decode raises, any other part is left out
RECURSIVE decoded_parts(_)
decoded_parts(parts) ==
    IF parts = <<>> THEN <<>>
    ELSE LET part == Head(parts) IN
         (IF "text" \in DOMAIN part THEN <<[text |-> part.text]>>
          ELSE IF "inline_data" \in DOMAIN part /\ part.inline_data.data.type = "str"
            THEN LET d == b64decode(part.inline_data.data.value) IN
                 IF d.raised THEN <<>>
                 ELSE <<[inline_data |->
                           [mime_type |-> part.inline_data.mime_type,
                            data |-> Bytes(d.value)]]>>
          ELSE <<>>)
         \o decoded_parts(Tail(parts))

\* a variant that writes every entry that has 'parts', with or without a role
\* and with whatever parts are left
encoded_history_keeping_all(history) ==
    LET kept == SelectSeq(history, LAMBDA entry : "parts" \in DOMAIN entry) IN
    [i \in 1..Len(kept) |-> [kept[i] EXCEPT !.parts = encoded_parts(@)]]

\* save_cache, the encoding loop: entries without a valid part are skipped
RECURSIVE encoded_history(_)
encoded_history(history) ==
    IF history = <<>> THEN <<>>
    ELSE LET entry == Head(history)
             parts == IF "parts" \in DOMAIN entry THEN encoded_parts(entry.parts) ELSE <<>> IN
         (IF parts # <<>> /\ "role" \in DOMAIN entry
            THEN <<[entry EXCEPT !.parts = parts]>> ELSE <<>>)
         \o encoded_history(Tail(history))

\* A window file that the utf-8 decoding of the read or json.loads rejects is
\* the one-entry sequence <<[malformed |-> kind]>>, kind "not_utf8" or
\* "not_json"; a summary file of that kind has the field malformed.
\* the way the read of a window file fails: "" when it does not
undecodable(file) ==
    IF file # <<>> /\ "malformed" \in DOMAIN file[1] THEN file[1].malformed ELSE ""

\* load_cache: the value returned for the content of the file; an entry
\* without 'parts' is passed over by the decoding loop and returned as it is
decoded_cache(file) ==
    IF undecodable(file) # "" THEN <<>>
    ELSE [i \in 1..Len(file) |->
            IF "parts" \in DOMAIN file[i]
              THEN [file[i] EXCEPT !.parts = decoded_parts(@)]
              ELSE file[i]]

\* load_cache(channel_id): the value returned
load_cache(ch) == decoded_cache(cache[ch])

\* Optional[str]
None == [none |-> TRUE, text |-> <<>>]
Some(text) == [none |-> FALSE, text |-> text]

\* load_deep_cache: the value returned for the file
decoded_deep_cache(file) ==
    IF ~file.exists \/ "malformed" \in DOMAIN file THEN None ELSE Some(file.summary)

\* load_deep_cache(channel_id): None without a file, else the "summary" value
load_deep_cache(ch) == decoded_deep_cache(deep_cache[ch])

\* ----------------------------------------------------------- save_cache
num_entries_to_keep == CACHE_LIMIT * 2

\* variants of the two slices that lose, respectively repeat, a turn
history_for_deep_cache_short(history) == SliceTo(history, -num_entries_to_keep - 1)

history_to_save_long(history) == SliceFrom(history, -num_entries_to_keep - 1)

\* history[:-num_entries_to_keep]
history_for_deep_cache(history) == SliceTo(history, -num_entries_to_keep)

\* history[-num_entries_to_keep:]
history_to_save_trimmed(history) == SliceFrom(history, -num_entries_to_keep)

\* the split save_cache computes for its argument
save_split(ch, history) ==
    IF Len(history) > num_entries_to_keep
      THEN [channel_id |-> ch, history |-> history, overflow |-> TRUE,
            to_save |-> history_to_save_trimmed(history),
            for_deep_cache |-> history_for_deep_cache(history)]
      ELSE [channel_id |-> ch, history |-> history, overflow |-> FALSE,
            to_save |-> history, for_deep_cache |-> <<>>]

\* llm_manager.is_error_message(text): False without a provider
is_error_message(text) == IF llm_handler.cls = "None" THEN FALSE ELSE _is_error_message(text)

\* --------------------------------------------------------- handle_mention
\* What llm_manager.generate_response hands back to handle_mention:
\* a reply, an empty reply, a reply that contains one of the keywords, an
\* error message.
ResponseTexts ==
    { <<"ok">>, <<>>, <<"about", "Error", "codes">>, <<bot_constants.ERROR_MSG_GEMINI_UNKNOWN>> }

IdleReq ==
    [pc |-> "idle", channel_id |-> "c1", chat_history |-> <<>>,
     deep_cache_summary |-> None, attachments |-> <<>>, n |-> 0]

\* the users that press buttons; "author" has created the poll
Users == {"author", "u1", "u2"}

\* the button_callback coroutines of one FollowUpView
Presses == {"p1", "p2", "p3"}

\* no button of the view has been pressed
IdlePress == [pc |-> "idle", chat_history |-> <<>>, n |-> 0]

\* FollowUpView.__init__ for a message on channel c1: not stopped; generations
\* counts the calls of llm_manager.generate_response made by its callbacks
NewFollowUpView ==
    [stopped |-> FALSE, channel_id |-> "c1", generations |-> 0,
     press |-> [p \in Presses |-> IdlePress]]

\* PollView.__init__(question, options, author): a set of voters for each
\* distinct option, not closed
NewPollView(options) ==
    [options |-> options,
     votes |-> [o \in {options[i] : i \in 1..Len(options)} |-> {}],
     closed |-> FALSE,
     sent |-> ""]

\* a view whose buttons nobody presses
InitUI ==
    /\ view = NewFollowUpView
    /\ poll = NewPollView(<<"a", "b">>)

\* save_cache(channel_id, history): trim, create the update_deep_cache task,
\* encode and write the file
save_cache(ch, history) ==
    LET split == save_split(ch, history) IN
    /\ last_save' = split
    /\ handoffs' = IF split.overflow
                     THEN Append(handoffs, [channel_id |-> ch,
                                            old_history |-> split.for_deep_cache])
                     ELSE handoffs
    /\ cache' = [cache EXCEPT ![ch] = encoded_history(split.to_save)]

\* save_deep_cache(channel_id, summary): what the file holds afterwards
saved_deep_cache(summary) ==
    [exists |-> TRUE, summary |-> IF summary.none THEN <<>> ELSE summary.text]

\* load_cache, the except branches: a file json.loads rejects is written anew
\* with save_cache(channel_id, []); after another exception it is left alone
load_cache_heals(ch) ==
    IF undecodable(cache[ch]) = "not_json"
      THEN save_cache(ch, <<>>)
      ELSE UNCHANGED <<cache, handoffs, last_save>>

\* load_deep_cache, the except branches: save_deep_cache(channel_id, None)
\* after a JSONDecodeError only
load_deep_cache_heals(ch) ==
    deep_cache' =
        IF "malformed" \in DOMAIN deep_cache[ch] /\ deep_cache[ch].malformed = "not_json"
          THEN [deep_cache EXCEPT ![ch] = saved_deep_cache(None)]
          ELSE deep_cache

\* handle_mention up to the call of llm_manager.generate_response (cache mode):
\* the history is read from the cache file, the summary from its file
MentionLoadWith(r, ch, attachments) ==
    /\ req[r].pc = "idle"
    /\ nreq < MaxRequests
    /\ nreq' = nreq + 1
    /\ req' = [req EXCEPT ![r] = [pc |-> "generating", channel_id |-> ch,
                                  chat_history |-> load_cache(ch),
                                  deep_cache_summary |-> load_deep_cache(ch),
                                  attachments |-> attachments,
                                  n |-> nreq + 1]]
    /\ load_cache_heals(ch)
    /\ load_deep_cache_heals(ch)
    /\ UNCHANGED <<CACHE_LIMIT, appended, task>>
    /\ UNCHANGED <<dispatchVars, manager, uiVars>>

\* a mention without attachments
MentionLoad(r, ch) == MentionLoadWith(r, ch, <<>>)

\* the turns handle_mention appends for a response that is not an error: the
\* user entry holds the text of the message and one inline_data part for each
\* image read from the message
new_turns_with(n, attachments, response_text) ==
    <<[role |-> "user",
       parts |-> <<[text |-> <<"q">>]>> \o
                 [i \in 1..Len(attachments) |-> [inline_data |-> attachments[i]]],
       id |-> 2 * n - 1]>>
    \o (IF response_text # <<>> THEN <<Turn("model", response_text, 2 * n)>> ELSE <<>>)

\* the turns of a mention without attachments
new_turns(n, response_text) == new_turns_with(n, <<>>, response_text)

\* a variant that stores the turns of every response, error messages included
MentionRespond_storing_errors(r, response_text) ==
    /\ req[r].pc = "generating"
    /\ LET ch == req[r].channel_id
           turns == new_turns_with(req[r].n, req[r].attachments, response_text) IN
       /\ save_cache(ch, req[r].chat_history \o turns)
       /\ appended' = [appended EXCEPT ![ch] = @ \o turns]
    /\ req' = [req EXCEPT ![r] = IdleReq]
    /\ UNCHANGED <<CACHE_LIMIT, nreq>>
    /\ UNCHANGED <<dispatchVars, compactVars, manager, uiVars>>

\* handle_mention from the response on: send it, update the cache
MentionRespond(r, response_text) ==
    /\ req[r].pc = "generating"
    /\ LET ch == req[r].channel_id
           turns == new_turns_with(req[r].n, req[r].attachments, response_text)
           current_history == req[r].chat_history \o turns IN
       IF ~is_error_message(response_text)
         THEN /\ save_cache(ch, current_history)
              /\ appended' = [appended EXCEPT ![ch] = @ \o turns]
         ELSE UNCHANGED <<cache, handoffs, appended, last_save>>
    /\ req' = [req EXCEPT ![r] = IdleReq]
    /\ UNCHANGED <<CACHE_LIMIT, nreq>>
    /\ UNCHANGED <<dispatchVars, compactVars, manager, uiVars>>

NoSave == [channel_id |-> "c1", history |-> <<>>, overflow |-> FALSE,
           to_save |-> <<>>, for_deep_cache |-> <<>>]

InitCacheStore ==
    /\ cache = [ch \in Channels |-> <<>>]
    /\ handoffs = <<>>
    /\ req = [r \in Reqs |-> IdleReq]
    /\ nreq = 0
    /\ InitUI
    /\ appended = [ch \in Channels |-> <<>>]
    /\ last_save = NoSave

\* no update_deep_cache or summarize_deep_cache coroutine runs; file_at_start
\* remembers the summary file the coroutine found when it was started, returned
\* is the (success, message) pair of summarize_deep_cache
IdleTask ==
    [pc |-> "idle", channel_id |-> "c1", old_history |-> <<>>, had_summary |-> FALSE,
     extracted_raw |-> [none |-> TRUE, text |-> <<>>], extracted_summary |-> <<>>,
     existing_summary |-> [none |-> TRUE, text |-> <<>>], merge_called |-> FALSE,
     merge_prompt |-> [existing_summary |-> <<>>, new_summary |-> <<>>],
     merged_raw |-> [none |-> TRUE, text |-> <<>>], final_summary |-> <<>>,
     saved |-> FALSE, file_at_start |-> [exists |-> FALSE, summary |-> <<>>],
     returned |-> [success |-> FALSE, message |-> <<>>]]

NoFile == [exists |-> FALSE, summary |-> <<>>]

InitNoCompaction ==
    /\ deep_cache = [ch \in Channels |-> NoFile]
    /\ task = [t \in Tasks |-> IdleTask]

\* An initialized provider: its class and the model names initialize() stored
\* ("" for a name that is not set).
Provider(cls, primary, secondary, lowload) ==
    [cls |-> cls, primary_model_name |-> primary, secondary_model_name |-> secondary,
     lowload_model_name |-> lowload]

\* _llm_handler is None
NoProvider == Provider("None", "", "", "")

\* llm_manager's globals when h is the active provider and nothing else was
\* initialized: h is registered under its name, GEMINI for a GeminiProvider
\* and MISTRAL otherwise
ManagerFor(h) ==
    [ _gemini_handler |-> IF h.cls = "GeminiProvider" THEN h ELSE NoProvider,
      _mistral_handler |-> IF h.cls \notin {"None", "GeminiProvider"} THEN h ELSE NoProvider,
      _current_provider_name |-> IF h.cls \in {"None", "GeminiProvider"} THEN "GEMINI" ELSE "MISTRAL",
      config |-> [GEMINI |-> IF h.cls = "GeminiProvider" THEN "ok" ELSE "no_key",
                  MISTRAL |-> IF h.cls \notin {"None", "GeminiProvider"} THEN "ok" ELSE "no_key"],
      setups |-> [GEMINI |-> IF h.cls = "GeminiProvider" THEN 1 ELSE 0,
                  MISTRAL |-> IF h.cls \notin {"None", "GeminiProvider"} THEN 1 ELSE 0],
      ncalls |-> 0,
      last |-> [op |-> "", name |-> "", force |-> FALSE, before |-> "",
                active_before |-> NoProvider, returned |-> NoProvider,
                success |-> FALSE] ]

\* a provider is active and no dispatch is modelled step by step
InitProvider ==
    /\ llm_handler = [cls |-> "GeminiProvider", primary_model_name |-> "gemini-pro",
                      secondary_model_name |-> "gemini-flash",
                      lowload_model_name |-> "gemini-flash"]
    /\ dispatch = [pc |-> "idle",
                   ctx |-> [chat_history |-> <<>>, deep_cache_summary |-> <<>>,
                            has_images |-> FALSE],
                   calls |-> <<>>, outcomes |-> <<>>, results |-> <<>>]
    /\ manager = ManagerFor(llm_handler)

\* no other request is in flight
OneAtATime == \A q \in Reqs : req[q].pc = "idle"

\* Requests served one at a time, with a positive window capacity
InitCache ==
    /\ CACHE_LIMIT \in 1..MaxCacheLimit
    /\ InitCacheStore
    /\ InitProvider
    /\ InitNoCompaction

NextCache ==
    \/ \E r \in Reqs, ch \in Channels : OneAtATime /\ MentionLoad(r, ch)
    \/ \E r \in Reqs, t \in ResponseTexts : MentionRespond(r, t)

SpecCache == InitCache /\ [][NextCache]_vars

\* The same, for every non-negative window capacity
InitCacheAnyLimit ==
    /\ CACHE_LIMIT \in 0..MaxCacheLimit
    /\ InitCacheStore
    /\ InitProvider
    /\ InitNoCompaction

SpecCacheAnyLimit == InitCacheAnyLimit /\ [][NextCache]_vars

\* Requests that overlap: handle_mention awaits the generation between its
\* load_cache and its save_cache, and other messages are handled meanwhile
NextCacheConcurrent ==
    \/ \E r \in Reqs, ch \in Channels : MentionLoad(r, ch)
    \/ \E r \in Reqs, t \in ResponseTexts : MentionRespond(r, t)

SpecCacheConcurrent == InitCache /\ [][NextCacheConcurrent]_vars

\* ------------------------------------------------- properties of the window
TurnIds(history) == {history[i].id : i \in 1..Len(history)}

\* the n most recent elements of s, all of s when it is shorter
LastN(s, n) == SubSeq(s, Len(s) - Min(n, Len(s)) + 1, Len(s))

\* the turns of a channel handed to update_deep_cache so far, in order
HandedOff(ch) == Concat(SelectSeqBy(handoffs, ch))

\* C1: for every conversation and every non-negative CACHE_LIMIT, after each
\* save_cache call the persisted window holds at most 2 * CACHE_LIMIT turns.
C1_WindowBound == \A ch \in Channels : Len(cache[ch]) <= 2 * CACHE_LIMIT

\* C2: a save_cache call whose input is longer than 2 * CACHE_LIMIT splits the
\* input into the turns handed to update_deep_cache followed by the turns kept,
\* no turn in both and none in neither, writes exactly the kept turns, and
\* creates the hand-off in the same step as the trim.
C2_TrimPartitionsInput ==
    [][ (last_save' # last_save /\ last_save'.overflow) =>
          LET s == last_save' IN
          /\ Len(s.history) > 2 * CACHE_LIMIT
          /\ s.for_deep_cache \o s.to_save = s.history
          /\ TurnIds(s.for_deep_cache) \cap TurnIds(s.to_save) = {}
          /\ cache'[s.channel_id] = s.to_save
          /\ handoffs' = Append(handoffs, [channel_id |-> s.channel_id,
                                           old_history |-> s.for_deep_cache]) ]_vars

C2_Witness ==
    /\ last_save.overflow
    /\ last_save.for_deep_cache # <<>>
    /\ last_save.to_save # <<>>
    /\ cache[last_save.channel_id] = last_save.to_save

\* C3: with requests served one at a time, the window of a conversation is
\* always the most recent 2 * CACHE_LIMIT turns appended to it, in order, and
\* the turns that left the window are exactly the turns handed to
\* update_deep_cache, each once.
C3_WindowIsMostRecent ==
    \A ch \in Channels :
        /\ cache[ch] = LastN(appended[ch], 2 * CACHE_LIMIT)
        /\ HandedOff(ch) \o cache[ch] = appended[ch]
        /\ Cardinality(TurnIds(appended[ch])) = Len(appended[ch])

\* Scenario A: CACHE_LIMIT = 2, three pairs appended to one conversation
C3_Witness ==
    /\ CACHE_LIMIT = 2
    /\ Len(appended["c1"]) = 6
    /\ \A i \in 1..6 : appended["c1"][i].role = (IF i % 2 = 1 THEN "user" ELSE "model")
    /\ cache["c1"] = SubSeq(appended["c1"], 3, 6)
    /\ HandedOff("c1") = SubSeq(appended["c1"], 1, 2)

\* ================================================================ dispatch
\* llm_provider.py: the error taxonomy
llm_provider ==
    [ ERROR_TYPE_RATE_LIMIT |-> "rate_limit",
      ERROR_TYPE_INVALID_ARGUMENT |-> "invalid_argument",
      ERROR_TYPE_BLOCKED_PROMPT |-> "blocked_prompt",
      ERROR_TYPE_BLOCKED_RESPONSE |-> "blocked_response",
      ERROR_TYPE_API_ERROR |-> "api_error",
      ERROR_TYPE_INTERNAL |-> "internal",
      ERROR_TYPE_UNKNOWN |-> "unknown",
      ERROR_TYPE_UNSUPPORTED_FEATURE |-> "unsupported_feature" ]

\* "keyword in text" on token sequences
Has(text, token) == \E i \in 1..Len(text) : text[i] = token

\* What a backend can answer.  A reply, an empty reply, a reply that uses one of
\* the generic keywords, and a reply that quotes the rate-limit message of the bot.
ReplyTexts ==
    { <<"ok">>, <<>>, <<"see", "Error", "log">>,
      <<"it said", bot_constants.ERROR_MSG_GEMINI_RESOURCE_EXHAUSTED>> }

\* str(e) of an exception of the SDK
ExceptionMessages == { <<"failed">>, <<"quota">>, <<"invalid">> }

\* status_code None
NoStatus == -1

\* One outcome of one backend call: a response object or a raised exception.
Response(block, finish, parts, text) ==
    [kind |-> "response", block_reason |-> block, finish_reason |-> finish,
     has_parts |-> parts, text |-> text,
     cls |-> "", status_code |-> NoStatus, message |-> <<>>]

Raise(cls, status, message) ==
    [kind |-> "raise", block_reason |-> FALSE, finish_reason |-> "",
     has_parts |-> FALSE, text |-> <<>>,
     cls |-> cls, status_code |-> status, message |-> message]

\* google.genai: generate_content
GeminiOutcomesWith(texts) ==
    { Response(TRUE, "STOP", FALSE, <<>>) }
    \cup { Response(FALSE, f, TRUE, t) :
             f \in {"STOP", "MAX_TOKENS", "SAFETY", "OTHER"}, t \in texts }
    \cup { Response(FALSE, f, FALSE, <<>>) : f \in {"STOP", "SAFETY"} }
    \cup { Raise("APIError", st, m) :
             st \in {NoStatus, 400, 429, 500}, m \in ExceptionMessages }
    \cup { Raise("ConnectError", NoStatus, <<"failed">>),
           Raise("Exception", NoStatus, <<"failed">>) }

\* openai: chat.completions.create (a 429 is always a RateLimitError)
OpenAIOutcomesWith(texts) ==
    { Response(FALSE, f, TRUE, t) :
        f \in {"stop", "length", "tool_calls", "content_filter", "other"},
        t \in texts }
    \cup { Response(FALSE, "stop", FALSE, <<>>) }
    \cup { Raise("RateLimitError", 429, <<"quota">>),
           Raise("AuthenticationError", 401, <<"failed">>),
           Raise("APIStatusError", 400, <<"invalid">>),
           Raise("APIStatusError", 403, <<"failed">>),
           Raise("APIStatusError", 500, <<"failed">>),
           Raise("APIConnectionError", NoStatus, <<"failed">>),
           Raise("Exception", NoStatus, <<"failed">>) }

\* mistralai: client.chat
MistralOutcomesWith(texts) ==
    { Response(FALSE, f, TRUE, t) :
        f \in {"stop", "length", "tool_calls", "error"}, t \in texts }
    \cup { Response(FALSE, "stop", FALSE, <<>>) }
    \cup { Raise("MistralAPIException", st, <<"failed">>) : st \in {429, 400, 401, 500} }
    \cup { Raise("MistralConnectionException", NoStatus, <<"failed">>),
           Raise("Exception", NoStatus, <<"failed">>) }

\* the exception raised by comparing None with an int
TypeError == Raise("TypeError", NoStatus, <<"failed">>)

Mapped(error_type, detail) == [raised |-> FALSE, error_type |-> error_type, detail |-> detail]

\* gemini_provider._map_gemini_error_to_error_type(e); the comparison
\* status_code >= 500 raises TypeError when the status code is None
_map_gemini_error_to_error_type(e) ==
    IF e.cls = "APIError" THEN
        IF e.status_code = 400 \/ Has(e.message, "invalid")
          THEN Mapped(llm_provider.ERROR_TYPE_INVALID_ARGUMENT, e.message)
        ELSE IF e.status_code = 401
          THEN Mapped(llm_provider.ERROR_TYPE_API_ERROR, <<"Authentication failed">>)
        ELSE IF e.status_code = 403
          THEN Mapped(llm_provider.ERROR_TYPE_API_ERROR, <<"Permission denied">>)
        ELSE IF e.status_code = 429 \/ Has(e.message, "quota")
          THEN Mapped(llm_provider.ERROR_TYPE_RATE_LIMIT, e.message)
        ELSE IF e.status_code = NoStatus
          THEN [raised |-> TRUE, error_type |-> "", detail |-> <<>>]
        ELSE IF e.status_code >= 500
          THEN Mapped(llm_provider.ERROR_TYPE_API_ERROR, <<"server error">> \o e.message)
        ELSE Mapped(llm_provider.ERROR_TYPE_API_ERROR, e.message)
    ELSE IF e.cls = "ConnectError"
      THEN Mapped(llm_provider.ERROR_TYPE_API_ERROR, <<"Connection error">> \o e.message)
    ELSE Mapped(llm_provider.ERROR_TYPE_UNKNOWN, e.message)

\* GeminiProvider.is_rate_limit_error(e)
gemini_is_rate_limit_error(e) ==
    /\ e.cls = "APIError"
    /\ (e.status_code = 429 \/ Has(e.message, "quota"))

\* GeminiProvider.format_error_message(error_type, detail)
gemini_format_error_message(error_type, detail) ==
    IF error_type = llm_provider.ERROR_TYPE_RATE_LIMIT THEN <<bot_constants.ERROR_MSG_GEMINI_RESOURCE_EXHAUSTED>>
    ELSE IF error_type = llm_provider.ERROR_TYPE_INVALID_ARGUMENT THEN
        IF Has(detail, "Unsupported MIME type")
          THEN <<bot_constants.ERROR_MSG_ATTACHMENT_UNSUPPORTED, "(mime)">>
        ELSE IF Has(detail, "Input too large") \/ Has(detail, "token limit")
          THEN <<bot_constants.ERROR_MSG_MAX_TEXT_SIZE>>
        ELSE IF Has(detail, "Invalid image data")
          THEN <<bot_constants.ERROR_MSG_IMAGE_READ_FAIL, "(data)">>
        ELSE <<bot_constants.ERROR_MSG_GEMINI_INVALID_ARG>>
    ELSE IF error_type = llm_provider.ERROR_TYPE_BLOCKED_PROMPT THEN <<bot_constants.ERROR_MSG_GEMINI_BLOCKED_PROMPT>>
    ELSE IF error_type = llm_provider.ERROR_TYPE_BLOCKED_RESPONSE THEN <<bot_constants.ERROR_MSG_GEMINI_BLOCKED_RESPONSE>>
    ELSE IF error_type = llm_provider.ERROR_TYPE_API_ERROR THEN
        IF detail = <<>> THEN <<bot_constants.ERROR_MSG_GEMINI_API_ERROR>>
        ELSE IF Has(detail, "Authentication failed") THEN <<bot_constants.ERROR_MSG_GEMINI_API_ERROR, "(auth)">>
        ELSE IF Has(detail, "Permission denied") THEN <<bot_constants.ERROR_MSG_GEMINI_API_ERROR, "(permission)">>
        ELSE IF Has(detail, "Connection error") THEN <<bot_constants.ERROR_MSG_GEMINI_API_ERROR, "(connection)">>
        ELSE IF Has(detail, "server error") THEN <<bot_constants.ERROR_MSG_GEMINI_API_ERROR, "(server)">>
        ELSE <<bot_constants.ERROR_MSG_GEMINI_API_ERROR, "(">> \o detail \o <<"...)">>
    ELSE IF error_type = llm_provider.ERROR_TYPE_INTERNAL THEN <<bot_constants.ERROR_MSG_INTERNAL>>
    ELSE IF error_type = llm_provider.ERROR_TYPE_UNKNOWN THEN
        IF detail = <<>> THEN <<bot_constants.ERROR_MSG_GEMINI_UNKNOWN>>
        ELSE <<bot_constants.ERROR_MSG_GEMINI_UNKNOWN, "(">> \o detail \o <<"...)">>
    ELSE IF error_type = llm_provider.ERROR_TYPE_UNSUPPORTED_FEATURE THEN <<bot_constants.ERROR_MSG_INTERNAL, "(unsupported feature)">>
    ELSE <<bot_constants.ERROR_MSG_GEMINI_UNKNOWN>>

\* gemini_provider._map_gemini_finish_reason_to_error
_map_gemini_finish_reason_to_error(finish_reason) ==
    IF finish_reason = "SAFETY"
      THEN Mapped(llm_provider.ERROR_TYPE_BLOCKED_RESPONSE, <<"Safety settings triggered.">>)
    ELSE IF finish_reason = "MAX_TOKENS"
      THEN Mapped(llm_provider.ERROR_TYPE_INVALID_ARGUMENT, <<"Output exceeded maximum", "token limit">>)
    ELSE Mapped(llm_provider.ERROR_TYPE_UNKNOWN, <<"Stopped due to reason", finish_reason>>)

\* the value of one call: a (model name, text) pair, or an exception that escapes
Returned(model, text) == [raised |-> FALSE, model |-> model, text |-> text, exc |-> TypeError]
Escaped(e) == [raised |-> TRUE, model |-> "", text |-> <<>>, exc |-> e]

\* GeminiProvider._generate_content_internal, from the API call on
_generate_content_internal(model_name, o) ==
    IF o.kind = "raise" THEN
        LET m == _map_gemini_error_to_error_type(o) IN
        IF m.raised THEN Escaped(TypeError)
        ELSE Returned(model_name, gemini_format_error_message(m.error_type, m.detail))
    ELSE IF o.block_reason THEN
        Returned(model_name, gemini_format_error_message(llm_provider.ERROR_TYPE_BLOCKED_PROMPT,
                                                         <<"Prompt blocked due to reason">>))
    ELSE IF o.finish_reason # "STOP" THEN
        LET m == _map_gemini_finish_reason_to_error(o.finish_reason)
            msg == gemini_format_error_message(m.error_type, m.detail) IN
        IF m.error_type = llm_provider.ERROR_TYPE_INVALID_ARGUMENT /\ Has(m.detail, "token limit")
           /\ o.has_parts /\ o.text # <<>>
          THEN Returned(model_name, o.text \o <<"...">> \o msg)
        ELSE IF m.error_type = llm_provider.ERROR_TYPE_BLOCKED_RESPONSE /\ o.has_parts /\ o.text # <<>>
          THEN Returned(model_name, o.text \o <<"...">> \o msg)
        ELSE Returned(model_name, msg)
    ELSE IF o.has_parts THEN Returned(model_name, o.text)
    ELSE Returned(model_name, gemini_format_error_message(llm_provider.ERROR_TYPE_UNKNOWN,
                                                          <<"No text content received">>))

\* openai_compatible_provider._map_openai_exception_to_error_type(e)
_map_openai_exception_to_error_type(e) ==
    IF e.cls = "RateLimitError" THEN Mapped(llm_provider.ERROR_TYPE_RATE_LIMIT, e.message)
    ELSE IF e.cls = "AuthenticationError"
      THEN Mapped(llm_provider.ERROR_TYPE_API_ERROR, <<"Authentication failed">>)
    ELSE IF e.cls = "APIStatusError" THEN
        IF e.status_code \in {400, 422} THEN Mapped(llm_provider.ERROR_TYPE_INVALID_ARGUMENT, e.message)
        ELSE IF e.status_code = 403
          THEN Mapped(llm_provider.ERROR_TYPE_API_ERROR, <<"Access forbidden">> \o e.message)
        ELSE IF e.status_code >= 500
          THEN Mapped(llm_provider.ERROR_TYPE_API_ERROR, <<"API", "server error">> \o e.message)
        ELSE Mapped(llm_provider.ERROR_TYPE_API_ERROR, <<"API error">> \o e.message)
    ELSE IF e.cls = "APIConnectionError"
      THEN Mapped(llm_provider.ERROR_TYPE_API_ERROR, <<"Connection error">> \o e.message)
    ELSE Mapped(llm_provider.ERROR_TYPE_UNKNOWN, e.message)

\* OpenAICompatibleProvider.is_rate_limit_error(e)
openai_is_rate_limit_error(e) ==
    e.cls = "RateLimitError" \/ (e.cls = "APIStatusError" /\ e.status_code = 429)

\* OpenAICompatibleProvider.format_error_message(error_type, detail)
openai_format_error_message(error_type, detail) ==
    IF error_type = llm_provider.ERROR_TYPE_RATE_LIMIT THEN <<bot_constants.ERROR_MSG_GEMINI_RESOURCE_EXHAUSTED>>
    ELSE IF error_type = llm_provider.ERROR_TYPE_INVALID_ARGUMENT THEN
        IF Has(detail, "Input too large") THEN <<bot_constants.ERROR_MSG_GEMINI_INVALID_ARG, "(too large)">>
        ELSE IF Has(detail, "token limit") THEN <<bot_constants.ERROR_MSG_MAX_TEXT_SIZE>>
        ELSE IF Has(detail, "Invalid image data") THEN <<bot_constants.ERROR_MSG_IMAGE_READ_FAIL, "(data)">>
        ELSE <<bot_constants.ERROR_MSG_GEMINI_INVALID_ARG>>
    ELSE IF error_type = llm_provider.ERROR_TYPE_BLOCKED_PROMPT THEN <<bot_constants.ERROR_MSG_GEMINI_BLOCKED_PROMPT>>
    ELSE IF error_type = llm_provider.ERROR_TYPE_BLOCKED_RESPONSE THEN <<bot_constants.ERROR_MSG_GEMINI_BLOCKED_RESPONSE>>
    ELSE IF error_type = llm_provider.ERROR_TYPE_API_ERROR THEN
        IF Has(detail, "Authentication failed") THEN <<bot_constants.ERROR_MSG_GEMINI_API_ERROR, "(auth)">>
        ELSE IF Has(detail, "Connection error") THEN <<bot_constants.ERROR_MSG_GEMINI_API_ERROR, "(connection)">>
        ELSE IF Has(detail, "server error") THEN <<bot_constants.ERROR_MSG_GEMINI_API_ERROR, "(server)">>
        ELSE IF detail # <<>> THEN <<bot_constants.ERROR_MSG_GEMINI_API_ERROR, "(">> \o detail \o <<"...)">>
        ELSE <<bot_constants.ERROR_MSG_GEMINI_API_ERROR>>
    ELSE IF error_type = llm_provider.ERROR_TYPE_INTERNAL THEN <<bot_constants.ERROR_MSG_INTERNAL>>
    ELSE IF error_type = llm_provider.ERROR_TYPE_UNSUPPORTED_FEATURE THEN <<bot_constants.ERROR_MSG_INTERNAL, "(unsupported feature)">>
    ELSE IF error_type = llm_provider.ERROR_TYPE_UNKNOWN /\ detail # <<>>
      THEN <<bot_constants.ERROR_MSG_GEMINI_UNKNOWN, "(">> \o detail \o <<"...)">>
    ELSE <<bot_constants.ERROR_MSG_GEMINI_UNKNOWN>>

\* OpenAICompatibleProvider._call_openai_api, from the API call on: exceptions
\* of the SDK are raised again
_call_openai_api(model_name, o) ==
    IF o.kind = "raise" THEN Escaped(o)
    ELSE IF ~o.has_parts
      THEN Returned(model_name, openai_format_error_message(llm_provider.ERROR_TYPE_UNKNOWN,
                                                            <<"Empty response from API.">>))
    ELSE IF o.finish_reason = "length"
      THEN Returned(model_name,
                    o.text \o <<"...">>
                    \o openai_format_error_message(llm_provider.ERROR_TYPE_INVALID_ARGUMENT,
                                                   <<"Output exceeded maximum", "token limit">>))
    ELSE IF o.finish_reason = "stop" THEN Returned(model_name, o.text)
    ELSE IF o.finish_reason = "tool_calls"
      THEN Returned(model_name, o.text \o <<"(Tool call detected)">>)
    ELSE IF o.finish_reason = "content_filter"
      THEN Returned(model_name, openai_format_error_message(llm_provider.ERROR_TYPE_BLOCKED_RESPONSE,
                                                            <<"Content filter triggered.">>))
    ELSE Returned(model_name, openai_format_error_message(llm_provider.ERROR_TYPE_UNKNOWN,
                                                          <<"Finished with reason", o.finish_reason>>))

\* mistral_provider._map_mistral_exception_to_error_type(e)
_map_mistral_exception_to_error_type(e) ==
    IF e.cls = "MistralAPIException" THEN
        IF e.status_code = 429 THEN Mapped(llm_provider.ERROR_TYPE_RATE_LIMIT, e.message)
        ELSE IF e.status_code \in {400, 422} THEN Mapped(llm_provider.ERROR_TYPE_INVALID_ARGUMENT, e.message)
        ELSE IF e.status_code = 401
          THEN Mapped(llm_provider.ERROR_TYPE_API_ERROR, <<"Authentication failed">>)
        ELSE IF e.status_code = 403
          THEN Mapped(llm_provider.ERROR_TYPE_API_ERROR, <<"Access forbidden">> \o e.message)
        ELSE IF e.status_code >= 500
          THEN Mapped(llm_provider.ERROR_TYPE_API_ERROR, <<"Mistral", "server error">> \o e.message)
        ELSE Mapped(llm_provider.ERROR_TYPE_API_ERROR, <<"Mistral API error">> \o e.message)
    ELSE IF e.cls = "MistralConnectionException"
      THEN Mapped(llm_provider.ERROR_TYPE_API_ERROR, <<"Connection error">> \o e.message)
    ELSE Mapped(llm_provider.ERROR_TYPE_UNKNOWN, e.message)

\* MistralProvider.is_rate_limit_error(e)
mistral_is_rate_limit_error(e) == e.cls = "MistralAPIException" /\ e.status_code = 429

\* MistralProvider.format_error_message(error_type, detail)
mistral_format_error_message(error_type, detail) ==
    IF error_type = llm_provider.ERROR_TYPE_RATE_LIMIT THEN <<bot_constants.ERROR_MSG_GEMINI_RESOURCE_EXHAUSTED>>
    ELSE IF error_type = llm_provider.ERROR_TYPE_INVALID_ARGUMENT THEN
        IF Has(detail, "Input too large") THEN <<bot_constants.ERROR_MSG_GEMINI_INVALID_ARG, "(too large)">>
        ELSE IF Has(detail, "token limit") THEN <<bot_constants.ERROR_MSG_MAX_TEXT_SIZE>>
        ELSE IF Has(detail, "Invalid image data") THEN <<bot_constants.ERROR_MSG_IMAGE_READ_FAIL, "(data)">>
        ELSE <<bot_constants.ERROR_MSG_GEMINI_INVALID_ARG>>
    ELSE IF error_type = llm_provider.ERROR_TYPE_BLOCKED_PROMPT THEN <<bot_constants.ERROR_MSG_GEMINI_BLOCKED_PROMPT>>
    ELSE IF error_type = llm_provider.ERROR_TYPE_BLOCKED_RESPONSE THEN <<bot_constants.ERROR_MSG_GEMINI_BLOCKED_RESPONSE>>
    ELSE IF error_type = llm_provider.ERROR_TYPE_API_ERROR THEN
        IF Has(detail, "Authentication failed") THEN <<bot_constants.ERROR_MSG_GEMINI_API_ERROR, "(auth)">>
        ELSE IF Has(detail, "Connection error") THEN <<bot_constants.ERROR_MSG_GEMINI_API_ERROR, "(connection)">>
        ELSE IF Has(detail, "server error") THEN <<bot_constants.ERROR_MSG_GEMINI_API_ERROR, "(server)">>
        ELSE <<bot_constants.ERROR_MSG_GEMINI_API_ERROR>>
    ELSE IF error_type = llm_provider.ERROR_TYPE_INTERNAL THEN <<bot_constants.ERROR_MSG_INTERNAL>>
    ELSE IF error_type = llm_provider.ERROR_TYPE_UNSUPPORTED_FEATURE THEN <<bot_constants.ERROR_MSG_INTERNAL, "(unsupported feature)">>
    ELSE <<bot_constants.ERROR_MSG_GEMINI_UNKNOWN>>

\* MistralProvider._call_mistral_api, from the API call on
_call_mistral_api(model_name, o) ==
    IF o.kind = "raise" THEN Escaped(o)
    ELSE IF ~o.has_parts
      THEN Returned(model_name, mistral_format_error_message(llm_provider.ERROR_TYPE_UNKNOWN,
                                                             <<"Empty response from API.">>))
    ELSE IF o.finish_reason = "length"
      THEN Returned(model_name,
                    o.text \o <<"...">>
                    \o mistral_format_error_message(llm_provider.ERROR_TYPE_INVALID_ARGUMENT,
                                                    <<"Output exceeded maximum", "token limit">>))
    ELSE IF o.finish_reason = "stop" THEN Returned(model_name, o.text)
    ELSE IF o.finish_reason = "tool_calls"
      THEN Returned(model_name, o.text \o <<"(Tool call detected but not processed)">>)
    ELSE Returned(model_name, mistral_format_error_message(llm_provider.ERROR_TYPE_UNKNOWN,
                                                           <<"Finished with reason", o.finish_reason>>))

\* ------------------------------------------------------- provider objects
\* GeminiProvider.initialize keeps the configured names; it fails only when
\* neither a primary nor a secondary name is configured
GeminiProviders ==
    { Provider("GeminiProvider", p, s, "gemini-flash") :
        p \in {"", "gemini-pro"}, s \in {"", "gemini-pro", "gemini-flash"} }
    \ { Provider("GeminiProvider", "", "", "gemini-flash") }

\* OpenAICompatibleProvider.initialize requires a primary name and sets a missing
\* secondary name to the primary one
OpenAIProviders ==
    { Provider("OpenAICompatibleProvider", "pixtral-large", s, "mistral-small") :
        s \in {"pixtral-large", "mistral-small"} }

\* MistralProvider.initialize: the same rule; the primary model may be the
\* lowload one
MistralProviders ==
    { Provider("MistralProvider", p, s, "mistral-small") :
        p \in {"pixtral-large", "mistral-small"}, s \in {"pixtral-large", "mistral-small"} }

Providers == {NoProvider} \cup GeminiProviders \cup OpenAIProviders \cup MistralProviders

OutcomesOf(h) ==
    IF h.cls = "GeminiProvider" THEN GeminiOutcomesWith(ReplyTexts)
    ELSE IF h.cls = "OpenAICompatibleProvider" THEN OpenAIOutcomesWith(ReplyTexts)
    ELSE MistralOutcomesWith(ReplyTexts)

\* VISION_MODEL_KEYWORDS: the model names that contain one of them
_is_vision_model(model_name) == model_name \in {"pixtral-large"}

\* ------------------------------------------------ what a request carries
Contexts ==
    [ chat_history : { <<>>, <<Turn("user", <<"q">>, 1), Turn("model", <<"ok">>, 2)>> },
      deep_cache_summary : { <<>>, <<"- likes cats">> },
      has_images : BOOLEAN ]

NoContext == [chat_history |-> <<>>, deep_cache_summary |-> <<>>, has_images |-> FALSE]

\* ---------------------------------------------- the request that is sent
\* A request is a sequence of messages [role, content]; a content is the
\* sequence of its text tokens, with the token "IMAGE" for an image.  The
\* persona is the token "PERSONA", the marker that opens the long-term summary
\* the token "SUMMARY_MARKER", the text of the new message the token "new".
\* The text parts of the entries of a history, one content per entry; entries
\* without a role or without text give no message.
history_messages(chat_history, roles) ==
    LET text_of(entry) ==
            IF "parts" \in DOMAIN entry
              THEN Concat([j \in 1..Len(entry.parts) |->
                             IF "text" \in DOMAIN entry.parts[j]
                               THEN entry.parts[j].text ELSE <<>>])
              ELSE <<>>
        kept == SelectSeq(chat_history,
                          LAMBDA entry : "role" \in DOMAIN entry /\ text_of(entry) # <<>>) IN
    [i \in 1..Len(kept) |-> [role |-> roles[kept[i].role], content |-> text_of(kept[i])]]

\* a variant that puts the long-term summary behind the history
_convert_history_to_openai_chat_summary_late(chat_history, deep_cache_summary, images) ==
    <<[role |-> "system", content |-> <<"PERSONA">>]>>
    \o history_messages(chat_history, [user |-> "user", model |-> "assistant"])
    \o (IF deep_cache_summary # <<>>
          THEN <<[role |-> "user", content |-> <<"SUMMARY_MARKER">> \o deep_cache_summary]>>
          ELSE <<>>)
    \o <<[role |-> "user",
          content |-> <<"new">> \o (IF images THEN <<"IMAGE">> ELSE <<>>)]>>

\* GeminiProvider._prepare_gemini_contents: the history first, then one user
\* content with the persona, the summary, the new text and the images
_prepare_gemini_contents(chat_history, deep_cache_summary, images) ==
    history_messages(chat_history, [user |-> "user", model |-> "model"])
    \o <<[role |-> "user",
          content |-> <<"PERSONA">>
                      \o (IF deep_cache_summary # <<>>
                            THEN <<"SUMMARY_MARKER">> \o deep_cache_summary ELSE <<>>)
                      \o <<"new">>
                      \o (IF images THEN <<"IMAGE">> ELSE <<>>)]>>

\* OpenAICompatibleProvider._convert_history_to_openai_chat: a system message,
\* the summary as a user message, the history, the new content
_convert_history_to_openai_chat(chat_history, deep_cache_summary, images) ==
    <<[role |-> "system", content |-> <<"PERSONA">>]>>
    \o (IF deep_cache_summary # <<>>
          THEN <<[role |-> "user", content |-> <<"SUMMARY_MARKER">> \o deep_cache_summary]>>
          ELSE <<>>)
    \o history_messages(chat_history, [user |-> "user", model |-> "assistant"])
    \o <<[role |-> "user",
          content |-> <<"new">> \o (IF images THEN <<"IMAGE">> ELSE <<>>)]>>

\* MistralProvider._convert_history_to_mistral_chat: the summary is appended to
\* the system message; a target model that is the lowload model gets no system
\* message, and the summary as a user message
_convert_history_to_mistral_chat(h, target_model, chat_history, deep_cache_summary, images) ==
    LET summary == IF deep_cache_summary # <<>>
                     THEN <<"SUMMARY_MARKER">> \o deep_cache_summary ELSE <<>> IN
    (IF target_model # h.lowload_model_name
       THEN <<[role |-> "system", content |-> <<"PERSONA">> \o summary]>>
     ELSE IF summary # <<>> THEN <<[role |-> "user", content |-> summary]>>
     ELSE <<>>)
    \o history_messages(chat_history, [user |-> "user", model |-> "assistant"])
    \o <<[role |-> "user",
          content |-> <<"new">> \o (IF images THEN <<"IMAGE">> ELSE <<>>)]>>

\* one backend call of the provider h: the slot, the model called and what was
\* sent
Call(h, slot, model, ctx, images) ==
    [slot |-> slot, model |-> model, chat_history |-> ctx.chat_history,
     deep_cache_summary |-> ctx.deep_cache_summary, images |-> images,
     request |->
        IF h.cls = "GeminiProvider"
          THEN _prepare_gemini_contents(ctx.chat_history, ctx.deep_cache_summary, images)
        ELSE IF h.cls = "OpenAICompatibleProvider"
          THEN _convert_history_to_openai_chat(ctx.chat_history, ctx.deep_cache_summary, images)
        ELSE _convert_history_to_mistral_chat(h, h.primary_model_name, ctx.chat_history,
                                              ctx.deep_cache_summary, images)]

\* whether the images of the request are sent with the primary call
primary_images(h, ctx) ==
    IF h.cls = "OpenAICompatibleProvider"
      THEN ctx.has_images /\ _is_vision_model(h.primary_model_name)
      ELSE ctx.has_images

\* whether the images of the request are sent with the secondary call
secondary_images(h, ctx) ==
    IF h.cls = "GeminiProvider" THEN ctx.has_images
    ELSE IF ctx.has_images /\ ~_is_vision_model(h.secondary_model_name) THEN FALSE
    ELSE primary_images(h, ctx)

\* ------------------------------------------- the value of one backend call
\* what the call of a model yields inside the provider
call_value(h, model_name, o) ==
    IF h.cls = "GeminiProvider" THEN _generate_content_internal(model_name, o)
    ELSE IF h.cls = "OpenAICompatibleProvider" THEN _call_openai_api(model_name, o)
    ELSE _call_mistral_api(model_name, o)

\* format_error_message(*_map_..._to_error_type(e)) of the provider
formatted_exception(h, e) ==
    IF h.cls = "GeminiProvider"
      THEN LET m == _map_gemini_error_to_error_type(e) IN
           gemini_format_error_message(m.error_type, m.detail)
    ELSE IF h.cls = "OpenAICompatibleProvider"
      THEN LET m == _map_openai_exception_to_error_type(e) IN
           openai_format_error_message(m.error_type, m.detail)
    ELSE LET m == _map_mistral_exception_to_error_type(e) IN
         mistral_format_error_message(m.error_type, m.detail)

is_rate_limit_error(h, e) ==
    IF h.cls = "GeminiProvider" THEN gemini_is_rate_limit_error(e)
    ELSE IF h.cls = "OpenAICompatibleProvider" THEN openai_is_rate_limit_error(e)
    ELSE mistral_is_rate_limit_error(e)

Result(model, text) == [model |-> model, text |-> text]

OrNoModel(name) == IF name = "" THEN "No Model" ELSE name

\* a variant that reports the primary model whatever model was called
call_result_relabelled(h, model_name, o) ==
    LET v == call_value(h, model_name, o) IN
    IF v.raised THEN Result(h.primary_model_name, formatted_exception(h, v.exc))
    ELSE Result(h.primary_model_name, v.text)

\* the (model name, text) a call contributes when its value is what the
\* dispatch returns: the returned pair, or the formatted exception
call_result(h, model_name, o) ==
    LET v == call_value(h, model_name, o) IN
    IF v.raised THEN Result(model_name, formatted_exception(h, v.exc))
    ELSE Result(v.model, v.text)

\* The provider's test that the primary call hit the rate limit.
\* GeminiProvider looks for the rate-limit message in the returned text (or asks
\* is_rate_limit_error for an escaped exception); the other two ask
\* is_rate_limit_error for the exception of the call.
primary_is_rate_limit(h, v) ==
    IF h.cls = "GeminiProvider"
      THEN IF v.raised THEN gemini_is_rate_limit_error(v.exc)
           ELSE _is_error_message(v.text) /\ Has(v.text, bot_constants.ERROR_MSG_GEMINI_RESOURCE_EXHAUSTED)
      ELSE v.raised /\ is_rate_limit_error(h, v.exc)

\* the provider's test that the primary call ended in an error
primary_is_error(h, v) ==
    IF h.cls = "GeminiProvider" THEN v.raised \/ _is_error_message(v.text)
    ELSE v.raised

\* a variant that goes on to the secondary block after every error
falls_through_on_error(h, v) == primary_is_error(h, v)

\* a variant that goes on to the secondary block after every call
falls_through_always(h, v) == TRUE

\* whether generate_response goes on to the secondary block after the primary call
falls_through(h, v) ==
    IF h.cls = "GeminiProvider"
      THEN primary_is_error(h, v) /\ primary_is_rate_limit(h, v)
      ELSE /\ primary_is_error(h, v)
           /\ primary_is_rate_limit(h, v)
           /\ h.secondary_model_name # ""
           /\ h.secondary_model_name # h.primary_model_name

\* the error generate_response returns when the secondary block finds no model
no_secondary_result(h) ==
    IF h.cls = "GeminiProvider"
      THEN Result(OrNoModel(h.primary_model_name),
                  gemini_format_error_message(llm_provider.ERROR_TYPE_API_ERROR,
                      <<"Primary model failed and no secondary model available.">>))
    ELSE IF h.cls = "OpenAICompatibleProvider"
      THEN Result(IF h.primary_model_name = "" THEN "N/A" ELSE h.primary_model_name,
                  openai_format_error_message(llm_provider.ERROR_TYPE_INTERNAL,
                      <<"Primary model failed and no secondary model available.">>))
    ELSE Result(OrNoModel(h.primary_model_name),
                mistral_format_error_message(llm_provider.ERROR_TYPE_INTERNAL,
                    <<"Primary model failed and no secondary model available.">>))

\* ------------------------------------------ llm_manager.generate_response
IdleDispatch ==
    [pc |-> "idle", handler |-> NoProvider, ctx |-> NoContext, calls |-> <<>>,
     outcomes |-> <<>>, results |-> <<>>]

\* a variant that reads the module global again after each backend call
bound_handler_global == llm_handler

\* the provider object whose generate_response is running: the method is
\* bound to the object _llm_handler named when the dispatch started
bound_handler == dispatch.handler

\* the secondary block of the provider's generate_response, up to the API call
EnterSecondary(h, outcomes) ==
    IF h.secondary_model_name # ""
      THEN dispatch' = [dispatch EXCEPT
                          !.pc = "secondary",
                          !.outcomes = outcomes,
                          !.calls = Append(@, Call(h, "secondary", h.secondary_model_name,
                                                   dispatch.ctx,
                                                   secondary_images(h, dispatch.ctx)))]
      ELSE dispatch' = [dispatch EXCEPT
                          !.pc = "done",
                          !.outcomes = outcomes,
                          !.results = Append(@, no_secondary_result(h))]

\* generate_response is called: without a provider it returns at once, otherwise
\* the provider converts the request and calls the primary model (the secondary
\* one when no primary name is set)
GenerateResponse(ctx) ==
    /\ dispatch.pc = "idle"
    /\ IF llm_handler = NoProvider
         THEN dispatch' = [IdleDispatch EXCEPT
                              !.pc = "done", !.ctx = ctx, !.handler = llm_handler,
                              !.results = <<Result("No Provider",
                                  <<bot_constants.ERROR_MSG_INTERNAL, "(LLM Provider not initialized)">>)>>]
       ELSE IF llm_handler.primary_model_name # ""
         THEN dispatch' = [IdleDispatch EXCEPT
                              !.pc = "primary", !.ctx = ctx, !.handler = llm_handler,
                              !.calls = <<Call(llm_handler, "primary", llm_handler.primary_model_name,
                                               ctx, primary_images(llm_handler, ctx))>>]
       ELSE dispatch' = [IdleDispatch EXCEPT
                              !.pc = "secondary", !.ctx = ctx, !.handler = llm_handler,
                              !.calls = <<Call(llm_handler, "secondary", llm_handler.secondary_model_name,
                                               ctx, secondary_images(llm_handler, ctx))>>]
    /\ UNCHANGED <<llm_handler, cacheVars, compactVars, manager, uiVars>>

\* the primary call comes back with outcome o
PrimaryReturns(o) ==
    /\ dispatch.pc = "primary"
    /\ o \in OutcomesOf(bound_handler)
    /\ LET h == bound_handler
           v == call_value(h, h.primary_model_name, o)
           outcomes == Append(dispatch.outcomes, o) IN
       IF falls_through(h, v)
         THEN EnterSecondary(h, outcomes)
         ELSE dispatch' = [dispatch EXCEPT
                              !.pc = "done",
                              !.outcomes = outcomes,
                              !.results = Append(@, call_result(h, h.primary_model_name, o))]
    /\ UNCHANGED <<llm_handler, cacheVars, compactVars, manager, uiVars>>

\* the secondary call comes back with outcome o
SecondaryReturns(o) ==
    /\ dispatch.pc = "secondary"
    /\ o \in OutcomesOf(bound_handler)
    /\ dispatch' = [dispatch EXCEPT
                       !.pc = "done",
                       !.outcomes = Append(@, o),
                       !.results = Append(@, call_result(bound_handler,
                                                         bound_handler.secondary_model_name, o))]
    /\ UNCHANGED <<llm_handler, cacheVars, compactVars, manager, uiVars>>

\* the caller has its result; the next request may be dispatched
DispatchDone ==
    /\ dispatch.pc = "done"
    /\ dispatch' = IdleDispatch
    /\ UNCHANGED <<llm_handler, cacheVars, compactVars, manager, uiVars>>

InitDispatch ==
    /\ llm_handler \in Providers
    /\ manager = ManagerFor(llm_handler)
    /\ dispatch = IdleDispatch
    /\ CACHE_LIMIT = 1
    /\ InitCacheStore
    /\ InitNoCompaction

NextDispatch ==
    \/ \E ctx \in Contexts : GenerateResponse(ctx)
    \/ \E o \in GeminiOutcomesWith(ReplyTexts) \cup OpenAIOutcomesWith(ReplyTexts)
                \cup MistralOutcomesWith(ReplyTexts) : PrimaryReturns(o)
    \/ \E o \in GeminiOutcomesWith(ReplyTexts) \cup OpenAIOutcomesWith(ReplyTexts)
                \cup MistralOutcomesWith(ReplyTexts) : SecondaryReturns(o)
    \/ DispatchDone

SpecDispatch == InitDispatch /\ [][NextDispatch]_vars

\* the fairness the liveness of a dispatch rests on: a backend call that was
\* made comes back with some outcome
SpecDispatchLive ==
    /\ SpecDispatch
    /\ WF_vars(\E o \in GeminiOutcomesWith(ReplyTexts) \cup OpenAIOutcomesWith(ReplyTexts)
                       \cup MistralOutcomesWith(ReplyTexts) : PrimaryReturns(o))
    /\ WF_vars(\E o \in GeminiOutcomesWith(ReplyTexts) \cup OpenAIOutcomesWith(ReplyTexts)
                       \cup MistralOutcomesWith(ReplyTexts) : SecondaryReturns(o))

\* --------------------------------------------- properties of the dispatch
\* the primary call of the dispatch has come back
PrimaryCameBack ==
    /\ Len(dispatch.outcomes) >= 1
    /\ dispatch.calls[1].slot = "primary"

\* what the primary call yielded
PrimaryValue ==
    call_value(llm_handler, llm_handler.primary_model_name, dispatch.outcomes[1])

DistinctSecondary ==
    /\ llm_handler.secondary_model_name # ""
    /\ llm_handler.secondary_model_name # llm_handler.primary_model_name

\* a response that is a finished reply with text parts
PlainReply(o) ==
    /\ o.kind = "response"
    /\ ~o.block_reason
    /\ o.has_parts
    /\ o.finish_reason \in {"STOP", "stop"}

\* C4: when the primary call ends in a rate-limit error and a secondary model
\* different from the primary is configured, exactly one secondary call is made
\* with the same history and summary, and the dispatch returns the model name
\* and text of that call unchanged, success or error; there is no third call.
C4_FallbackExactlyOnce ==
    (PrimaryCameBack /\ primary_is_rate_limit(llm_handler, PrimaryValue) /\ DistinctSecondary)
    => /\ dispatch.pc \in {"secondary", "done"}
       /\ Len(dispatch.calls) = 2
       /\ dispatch.calls[2].slot = "secondary"
       /\ dispatch.calls[2].model = llm_handler.secondary_model_name
       /\ dispatch.calls[2].chat_history = dispatch.ctx.chat_history
       /\ dispatch.calls[2].chat_history = dispatch.calls[1].chat_history
       /\ dispatch.calls[2].deep_cache_summary = dispatch.ctx.deep_cache_summary
       /\ dispatch.calls[2].deep_cache_summary = dispatch.calls[1].deep_cache_summary
       /\ dispatch.pc = "done" =>
            /\ Len(dispatch.outcomes) = 2
            /\ dispatch.results =
                 <<call_result(llm_handler, llm_handler.secondary_model_name,
                               dispatch.outcomes[2])>>
            /\ dispatch.results[1].model = llm_handler.secondary_model_name
            /\ PlainReply(dispatch.outcomes[2]) =>
                 dispatch.results[1].text = dispatch.outcomes[2].text

\* Scenario B: the primary call raises a rate-limit error, the secondary call
\* answers "ok"
C4_Witness ==
    /\ dispatch.pc = "done"
    /\ PrimaryCameBack
    /\ dispatch.outcomes[1].kind = "raise"
    /\ primary_is_rate_limit(llm_handler, PrimaryValue)
    /\ DistinctSecondary
    /\ Len(dispatch.calls) = 2
    /\ dispatch.results = <<Result(llm_handler.secondary_model_name, <<"ok">>)>>

\* C5: when the primary call ends in an error that is not a rate-limit error,
\* the secondary model is never called and the dispatch returns the error of
\* the primary call.
C5_NoFallbackOnOtherError ==
    (/\ PrimaryCameBack
     /\ primary_is_error(llm_handler, PrimaryValue)
     /\ ~primary_is_rate_limit(llm_handler, PrimaryValue))
    => /\ dispatch.pc = "done"
       /\ Len(dispatch.calls) = 1
       /\ dispatch.results =
            <<call_result(llm_handler, llm_handler.primary_model_name, dispatch.outcomes[1])>>
       /\ dispatch.results[1].model = llm_handler.primary_model_name
       /\ _is_error_message(dispatch.results[1].text)

\* an invalid-argument error of the primary model, with a distinct secondary configured
C5_Witness ==
    /\ dispatch.pc = "done"
    /\ PrimaryCameBack
    /\ DistinctSecondary
    /\ dispatch.outcomes[1].kind = "raise"
    /\ dispatch.outcomes[1].status_code = 400
    /\ Len(dispatch.calls) = 1
    /\ dispatch.results =
         <<Result(llm_handler.primary_model_name, <<bot_constants.ERROR_MSG_GEMINI_INVALID_ARG>>)>>

\* C6: in every provider class a second backend call follows a primary call only
\* if the primary error is a rate-limit error and a secondary model with a
\* different name is configured; with the secondary missing or equal to the
\* primary, a primary rate-limit error ends the dispatch without a second call.
C6_FallbackOnlyToDistinctModel ==
    /\ Len(dispatch.calls) = 2 =>
         /\ primary_is_rate_limit(llm_handler, PrimaryValue)
         /\ DistinctSecondary
    /\ (PrimaryCameBack /\ primary_is_rate_limit(llm_handler, PrimaryValue)
        /\ ~DistinctSecondary) =>
         /\ dispatch.pc = "done"
         /\ Len(dispatch.calls) = 1

RECURSIVE LStrip(_)
LStrip(text) == IF text # <<>> /\ Head(text) = " " THEN LStrip(Tail(text)) ELSE text

RECURSIVE RStrip(_)
RStrip(text) ==
    IF text # <<>> /\ text[Len(text)] = " "
      THEN RStrip(SubSeq(text, 1, Len(text) - 1)) ELSE text

Strip(text) == RStrip(LStrip(text))

\* the marker DEEP_CACHE_EXTRACT_PROMPT asks for when there is nothing to extract
NO_INFO_MARKER == "NO_INFO_MARKER"

\* Optional[str]

\* str(x) if x else ""
StrOrEmpty(raw) == IF raw.none \/ raw.text = <<>> THEN <<>> ELSE raw.text

\* what the low-load model can answer: two summaries, a summary with leading
\* blanks, a blank text, nothing, the marker, a text with one of the keywords
LowloadTexts ==
    { <<"- likes dogs">>, <<"- likes cats and dogs">>, <<" ", "- likes dogs">>,
      <<" ">>, <<>>, <<NO_INFO_MARKER>>, <<"- saw", "Error">> }

LowloadOutcomesOf(h) ==
    IF h.cls = "GeminiProvider" THEN GeminiOutcomesWith(LowloadTexts)
    ELSE IF h.cls = "OpenAICompatibleProvider" THEN OpenAIOutcomesWith(LowloadTexts)
    ELSE MistralOutcomesWith(LowloadTexts)

\* a variant that hands on the text of the call, error messages included, and
\* the formatted exception
provider_generate_lowload_response_passing_errors(h, o) ==
    IF h.lowload_model_name = "" THEN None
    ELSE LET v == call_value(h, h.lowload_model_name, o) IN
         IF v.raised THEN Some(formatted_exception(h, v.exc))
         ELSE Some(v.text)

\* <Provider>.generate_lowload_response, from the API call on: None for an
\* exception or an error message; GeminiProvider strips the text
provider_generate_lowload_response(h, o) ==
    IF h.lowload_model_name = "" THEN None
    ELSE LET v == call_value(h, h.lowload_model_name, o) IN
         IF v.raised THEN None
         ELSE IF _is_error_message(v.text) THEN None
         ELSE IF h.cls = "GeminiProvider" THEN Some(Strip(v.text))
         ELSE Some(v.text)

\* llm_manager.generate_lowload_response
generate_lowload_response(o) ==
    IF llm_handler.cls = "None" THEN None
    ELSE provider_generate_lowload_response(llm_handler, o)

\* a part as _format_history_for_prompt shows it
part_text(part) == IF "text" \in DOMAIN part THEN part.text ELSE <<"[attachment]">>

\* " ".join(text_parts)
RECURSIVE join_parts(_)
join_parts(parts) ==
    IF parts = <<>> THEN <<>>
    ELSE IF Len(parts) = 1 THEN part_text(parts[1])
    ELSE part_text(parts[1]) \o <<" ">> \o join_parts(Tail(parts))

\* str.capitalize() of a role
capitalize(role) ==
    IF role = "user" THEN "User" ELSE IF role = "model" THEN "Model" ELSE "Unknown"

\* _format_history_for_prompt: the longest content of an entry that is not cut
max_len == 500

\* _format_history_for_prompt(history)
RECURSIVE _format_history_for_prompt(_)
_format_history_for_prompt(history) ==
    IF history = <<>> THEN <<>>
    ELSE LET entry == Head(history)
             rest == _format_history_for_prompt(Tail(history))
             content == IF "parts" \in DOMAIN entry THEN Strip(join_parts(entry.parts))
                        ELSE <<>>
             shown == IF Len(content) > max_len
                        THEN SubSeq(content, 1, max_len) \o <<"...">> ELSE content
             line == <<capitalize(entry.role), ":">> \o shown IN
         IF content = <<>> THEN rest
         ELSE IF rest = <<>> THEN line
         ELSE line \o <<"\n">> \o rest

\* existing_summary and existing_summary.strip()
has_summary(existing) == ~existing.none /\ existing.text # <<>> /\ Strip(existing.text) # <<>>

\* variants of the test below that reject, respectively accept, every extraction
extraction_failed_always(extracted_summary) == TRUE

extraction_failed_never(extracted_summary) == FALSE

\* update_deep_cache: the test after the extraction call
extraction_failed(extracted_summary) ==
    \/ Strip(extracted_summary) = <<>>
    \/ Has(extracted_summary, NO_INFO_MARKER)
    \/ is_error_message(extracted_summary)

\* variants of the choice below that ignore one of the two texts
final_summary_extracted_only(extracted_summary, merged_summary) == extracted_summary

final_summary_merged_only(extracted_summary, merged_summary) == merged_summary

\* update_deep_cache: the summary to store after the merge call
final_summary(extracted_summary, merged_summary) ==
    IF Strip(merged_summary) # <<>> /\ ~is_error_message(merged_summary)
      THEN merged_summary
      ELSE extracted_summary

\* ------------------------------------------------------ update_deep_cache
\* the evicted turns a task is created with
OldHistories ==
    { <<Turn("user", <<"hello">>, 1), Turn("model", <<"ok">>, 2)>>,
      <<Turn("user", <<" ">>, 1)>> }

\* update_deep_cache(channel_id, old_history) up to the extraction call: it
\* returns at once without a provider, without a low-load model or without text
DC_Start(t, ch, old_history) ==
    /\ task[t].pc = "idle"
    /\ LET history_text == _format_history_for_prompt(old_history)
           skip == \/ llm_handler.cls = "None"
                   \/ llm_handler.lowload_model_name = ""
                   \/ Strip(history_text) = <<>> IN
       task' = [task EXCEPT ![t] =
                  [IdleTask EXCEPT !.pc = IF skip THEN "done" ELSE "extracting",
                                   !.channel_id = ch,
                                   !.old_history = old_history,
                                   !.had_summary = has_summary(load_deep_cache(ch)),
                                   !.file_at_start = deep_cache[ch]]]
    /\ UNCHANGED <<deep_cache, cacheVars, dispatchVars, manager, uiVars>>

\* a variant that empties the window of the channel when the extraction fails
DC_Extracted_resetting_window(t, o) ==
    /\ task[t].pc = "extracting"
    /\ o \in LowloadOutcomesOf(llm_handler)
    /\ LET extracted_summary_raw == generate_lowload_response(o)
           extracted_summary == StrOrEmpty(extracted_summary_raw) IN
       /\ task' = [task EXCEPT ![t].extracted_raw = extracted_summary_raw,
                               ![t].extracted_summary = extracted_summary,
                               ![t].pc = IF extraction_failed(extracted_summary)
                                           THEN "done" ELSE "loading"]
       /\ cache' = IF extraction_failed(extracted_summary)
                     THEN [cache EXCEPT ![task[t].channel_id] = <<>>]
                     ELSE cache
    /\ UNCHANGED <<deep_cache, CACHE_LIMIT, handoffs, req, nreq, appended, last_save>>
    /\ UNCHANGED <<dispatchVars, manager, uiVars>>

\* the extraction call comes back with outcome o
DC_Extracted(t, o) ==
    /\ task[t].pc = "extracting"
    /\ o \in LowloadOutcomesOf(llm_handler)
    /\ LET extracted_summary_raw == generate_lowload_response(o)
           extracted_summary == StrOrEmpty(extracted_summary_raw) IN
       task' = [task EXCEPT ![t].extracted_raw = extracted_summary_raw,
                            ![t].extracted_summary = extracted_summary,
                            ![t].pc = IF extraction_failed(extracted_summary)
                                        THEN "done" ELSE "loading"]
    /\ UNCHANGED <<deep_cache, cacheVars, dispatchVars, manager, uiVars>>

\* load_deep_cache returns; the merge call is made when a summary exists
DC_Load(t) ==
    /\ task[t].pc = "loading"
    /\ LET existing_summary == load_deep_cache(task[t].channel_id) IN
       IF has_summary(existing_summary)
         THEN task' = [task EXCEPT
                         ![t].existing_summary = existing_summary,
                         ![t].merge_called = TRUE,
                         ![t].merge_prompt =
                             [existing_summary |-> existing_summary.text,
                              new_summary |-> task[t].extracted_summary],
                         ![t].final_summary = task[t].extracted_summary,
                         ![t].pc = "merging"]
         ELSE task' = [task EXCEPT
                         ![t].existing_summary = existing_summary,
                         ![t].final_summary = task[t].extracted_summary,
                         ![t].pc = "saving"]
    /\ load_deep_cache_heals(task[t].channel_id)
    /\ UNCHANGED <<cacheVars, dispatchVars, manager, uiVars>>

\* the merge call comes back with outcome o
DC_Merged(t, o) ==
    /\ task[t].pc = "merging"
    /\ o \in LowloadOutcomesOf(llm_handler)
    /\ LET merged_summary_raw == generate_lowload_response(o)
           merged_summary == StrOrEmpty(merged_summary_raw) IN
       task' = [task EXCEPT
                  ![t].merged_raw = merged_summary_raw,
                  ![t].final_summary = final_summary(task[t].extracted_summary, merged_summary),
                  ![t].pc = "saving"]
    /\ UNCHANGED <<deep_cache, cacheVars, dispatchVars, manager, uiVars>>

\* save_deep_cache(channel_id, final_summary) writes the file
DC_Save(t) ==
    /\ task[t].pc = "saving"
    /\ deep_cache' = [deep_cache EXCEPT
                        ![task[t].channel_id] = saved_deep_cache(Some(task[t].final_summary))]
    /\ task' = [task EXCEPT ![t].pc = "done", ![t].saved = TRUE]
    /\ UNCHANGED <<cacheVars, dispatchVars, manager, uiVars>>

\* the coroutine is over
DC_Finished(t) ==
    /\ task[t].pc = "done"
    /\ task' = [task EXCEPT ![t] = IdleTask]
    /\ UNCHANGED <<deep_cache, cacheVars, dispatchVars, manager, uiVars>>

\* a variant of !cclear that empties the summary file of every channel
ClearDeepCache_everywhere(ch) ==
    /\ deep_cache' = [c \in Channels |-> saved_deep_cache(None)]
    /\ UNCHANGED <<task, cacheVars, dispatchVars, manager, uiVars>>

\* a variant of !cclear that removes a summary file it finds emptied
ClearDeepCache_removing(ch) ==
    /\ deep_cache' = [deep_cache EXCEPT ![ch] =
                        IF @ = saved_deep_cache(None) THEN NoFile
                        ELSE saved_deep_cache(None)]
    /\ UNCHANGED <<task, cacheVars, dispatchVars, manager, uiVars>>

\* a variant of !cclear that also empties the window file
ClearDeepCache_and_window(ch) ==
    /\ deep_cache' = [deep_cache EXCEPT ![ch] = saved_deep_cache(None)]
    /\ cache' = [cache EXCEPT ![ch] = <<>>]
    /\ UNCHANGED <<task, CACHE_LIMIT, handoffs, req, nreq, appended, last_save>>
    /\ UNCHANGED <<dispatchVars, manager, uiVars>>

\* !cclear: save_deep_cache(channel_id, None)
ClearDeepCache(ch) ==
    /\ deep_cache' = [deep_cache EXCEPT ![ch] = saved_deep_cache(None)]
    /\ UNCHANGED <<task, cacheVars, dispatchVars, manager, uiVars>>

\* the providers a compaction can meet: none, one without a low-load model,
\* and one of each class used by llm_manager with a low-load model
CompactionProviders ==
    { NoProvider,
      Provider("GeminiProvider", "gemini-pro", "gemini-flash", ""),
      Provider("GeminiProvider", "gemini-pro", "gemini-flash", "gemini-flash"),
      Provider("OpenAICompatibleProvider", "pixtral-large", "mistral-small", "mistral-small") }

\* the summary files found at start: none, an emptied one, one with a summary
InitialFiles == { NoFile, saved_deep_cache(None), saved_deep_cache(Some(<<"- likes cats">>)) }

NoTaskRunning == \A t \in Tasks : task[t].pc = "idle"

InitCompact ==
    /\ llm_handler \in CompactionProviders
    /\ manager = ManagerFor(llm_handler)
    /\ dispatch = IdleDispatch
    /\ deep_cache \in [Channels -> InitialFiles]
    /\ task = [t \in Tasks |-> IdleTask]
    /\ CACHE_LIMIT = 1
    /\ InitCacheStore

\* compactions that run one at a time
NextCompact ==
    \/ \E t \in Tasks, ch \in Channels, h \in OldHistories :
          NoTaskRunning /\ DC_Start(t, ch, h)
    \/ \E t \in Tasks, o \in GeminiOutcomesWith(LowloadTexts) \cup OpenAIOutcomesWith(LowloadTexts) :
          DC_Extracted(t, o)
    \/ \E t \in Tasks : DC_Load(t)
    \/ \E t \in Tasks, o \in GeminiOutcomesWith(LowloadTexts) \cup OpenAIOutcomesWith(LowloadTexts) :
          DC_Merged(t, o)
    \/ \E t \in Tasks : DC_Save(t)
    \/ \E t \in Tasks : DC_Finished(t)
    \/ \E ch \in Channels : NoTaskRunning /\ ClearDeepCache(ch)

SpecCompact == InitCompact /\ [][NextCompact]_vars

\* ------------------------------------------- properties of a compaction
\* the extraction call gave a text that update_deep_cache accepts
ExtractionSucceeded(T) ==
    /\ ~T.extracted_raw.none
    /\ Strip(T.extracted_raw.text) # <<>>
    /\ ~Has(T.extracted_raw.text, NO_INFO_MARKER)
    /\ ~_is_error_message(T.extracted_raw.text)

\* the merge call gave a text that update_deep_cache accepts
MergeSucceeded(T) ==
    /\ T.merge_called
    /\ ~T.merged_raw.none
    /\ Strip(T.merged_raw.text) # <<>>
    /\ ~_is_error_message(T.merged_raw.text)

\* C8: a compaction that finds a non-empty summary S, gets F from the extraction
\* call and M from the merge call, which is given S and F, stores M; the stored
\* summary is neither F alone nor S unchanged.
C8_MergedSummaryStored ==
    \A t \in Tasks :
        LET T == task[t]
            S == T.existing_summary.text
            F == T.extracted_raw.text
            M == T.merged_raw.text IN
        /\ (T.pc \in {"merging", "saving", "done"} /\ T.had_summary /\ ExtractionSucceeded(T)) =>
              /\ T.merge_called
              /\ T.merge_prompt = [existing_summary |-> S, new_summary |-> F]
              /\ S # <<>>
        /\ (T.pc = "done" /\ T.had_summary /\ ExtractionSucceeded(T) /\ MergeSucceeded(T)) =>
              /\ T.saved
              /\ deep_cache[T.channel_id] = [exists |-> TRUE, summary |-> M]
              /\ M # F => deep_cache[T.channel_id].summary # F
              /\ M # S => deep_cache[T.channel_id].summary # S

\* Scenario D: "- likes cats" stored, "- likes dogs" extracted, the merge call
\* answers "- likes cats and dogs"
C8_Witness ==
    \E t \in Tasks :
        /\ task[t].pc = "done"
        /\ task[t].existing_summary = Some(<<"- likes cats">>)
        /\ task[t].extracted_raw = Some(<<"- likes dogs">>)
        /\ task[t].merged_raw = Some(<<"- likes cats and dogs">>)
        /\ deep_cache[task[t].channel_id].summary = <<"- likes cats and dogs">>

\* C9: a compaction that finds a non-empty summary S and gets F from the
\* extraction call, and whose merge call fails or returns nothing, stores
\* exactly F, not S and not an empty summary.
C9_ExtractedKeptWhenMergeFails ==
    \A t \in Tasks :
        LET T == task[t]
            S == T.existing_summary.text
            F == T.extracted_raw.text IN
        (/\ T.pc = "done" /\ T.had_summary /\ ExtractionSucceeded(T)
         /\ T.merge_called /\ ~MergeSucceeded(T)) =>
              /\ T.saved
              /\ deep_cache[T.channel_id] = [exists |-> TRUE, summary |-> F]
              /\ F # <<>>
              /\ S # F => deep_cache[T.channel_id].summary # S

\* the merge call returned nothing and the extracted text replaced the summary
C9_Witness ==
    \E t \in Tasks :
        /\ task[t].pc = "done"
        /\ task[t].existing_summary = Some(<<"- likes cats">>)
        /\ task[t].extracted_raw = Some(<<"- likes dogs">>)
        /\ task[t].merge_called
        /\ task[t].merged_raw = None
        /\ deep_cache[task[t].channel_id].summary = <<"- likes dogs">>

\* C10 as stated: a compaction for a conversation without a stored summary whose
\* extraction call returns a non-empty text F stores exactly F.
C10_AnyNonEmptyExtractionStored ==
    \A t \in Tasks :
        LET T == task[t] IN
        (/\ T.pc = "done" /\ ~T.had_summary
         /\ ~T.extracted_raw.none /\ T.extracted_raw.text # <<>>) =>
              deep_cache[T.channel_id] = [exists |-> TRUE, summary |-> T.extracted_raw.text]

\* C10: a compaction for a conversation without a stored summary whose
\* extraction call returns a text F that is not blank, does not contain the
\* nothing-to-extract marker and is not an error message stores exactly F,
\* without a merge call.
C10_AcceptedExtractionStored ==
    \A t \in Tasks :
        LET T == task[t] IN
        (T.pc = "done" /\ ~T.had_summary /\ ExtractionSucceeded(T)) =>
              /\ T.saved
              /\ ~T.merge_called
              /\ deep_cache[T.channel_id] = [exists |-> TRUE, summary |-> T.extracted_raw.text]

\* no summary file, the extraction call answers "- likes dogs"
C10_Witness ==
    \E t \in Tasks :
        /\ task[t].pc = "done"
        /\ ~task[t].had_summary
        /\ task[t].existing_summary = None
        /\ task[t].extracted_raw = Some(<<"- likes dogs">>)
        /\ deep_cache[task[t].channel_id] = [exists |-> TRUE, summary |-> <<"- likes dogs">>]

\* C11: when the evicted turns render to empty text, or the extraction call
\* fails (no provider, no low-load model, an exception, an error message) or
\* returns nothing (an empty or blank text), the update_deep_cache task ends
\* normally without writing, and the summary file of its conversation is
\* exactly what it was when the task started.
C11_FailedExtractionKeepsSummary ==
    \A t \in Tasks :
        LET T == task[t] IN
        (/\ T.pc = "done"
         /\ \/ Strip(_format_history_for_prompt(T.old_history)) = <<>>
            \/ T.extracted_raw.none
            \/ Strip(T.extracted_raw.text) = <<>>)
        => /\ ~T.saved
           /\ ~T.merge_called
           /\ deep_cache[T.channel_id] = T.file_at_start

\* an extraction that returned a blank text, with a summary already stored
C11_Witness ==
    \E t \in Tasks :
        /\ task[t].pc = "done"
        /\ Strip(_format_history_for_prompt(task[t].old_history)) # <<>>
        /\ ~task[t].extracted_raw.none
        /\ Strip(task[t].extracted_raw.text) = <<>>
        /\ task[t].file_at_start.exists
        /\ task[t].file_at_start.summary # <<>>
        /\ deep_cache[task[t].channel_id] = task[t].file_at_start

\* C12: when requests on one conversation overlap and their generations
\* succeed, then once they have all finished the turns of every request are
\* persisted in the order in which the generations completed: the turns handed
\* to update_deep_cache followed by the window are the appended turns.
C12_OverlappingAppendsKept ==
    \A ch \in Channels :
        (\A r \in Reqs : req[r].pc = "idle") =>
            HandedOff(ch) \o cache[ch] = appended[ch]

\* ============================================================= llm_manager
\* The names a caller can pass: the two initialize_provider knows and another
ProviderNames == {"GEMINI", "MISTRAL", "OTHER"}

\* calls of initialize_provider and switch_provider that are followed
MaxManagerCalls == 3

\* The provider object initialize_provider builds for a name whose settings
\* are complete: GeminiProvider() or OpenAICompatibleProvider() after
\* initialize() stored the configured model names.  id tells objects apart.
configured_provider(provider_name, id) ==
    [id |-> id] @@
    (IF provider_name = "GEMINI"
       THEN Provider("GeminiProvider", "gemini-pro", "gemini-flash", "gemini-flash")
       ELSE Provider("OpenAICompatibleProvider", "pixtral-large", "mistral-small",
                     "mistral-small"))

\* a variant of initialize_provider that does not reuse a registered handler
initialize_provider_every_time(st, provider_name, force_reinitialize) ==
    LET m == st.manager
        existing_handler ==
            IF provider_name = "GEMINI" THEN m._gemini_handler
            ELSE IF provider_name = "MISTRAL" THEN m._mistral_handler
            ELSE NoProvider
        provider == configured_provider(provider_name,
                                        m.setups.GEMINI + m.setups.MISTRAL + 1)
        ran == [m EXCEPT !.setups[provider_name] = @ + 1]
        stored(h) == IF provider_name = "GEMINI"
                       THEN [ran EXCEPT !._gemini_handler = h]
                       ELSE [ran EXCEPT !._mistral_handler = h] IN
    IF FALSE
      THEN [manager |-> [m EXCEPT !._current_provider_name = provider_name],
            llm_handler |-> existing_handler,
            returned |-> existing_handler]
    ELSE IF provider_name \notin {"GEMINI", "MISTRAL"}
      THEN [st EXCEPT !.returned = NoProvider]
    ELSE IF m.config[provider_name] = "no_key"
      THEN [st EXCEPT !.returned = NoProvider]
    ELSE IF m.config[provider_name] = "ok"
      THEN [manager |-> [stored(provider) EXCEPT !._current_provider_name = provider_name],
            llm_handler |-> provider,
            returned |-> provider]
    ELSE [manager |-> stored(NoProvider),
          llm_handler |-> IF st.llm_handler = provider THEN NoProvider ELSE st.llm_handler,
          returned |-> NoProvider]

\* a variant of initialize_provider that reuses a registered handler without
\* recording its name as the active one
initialize_provider_keeping_name(st, provider_name, force_reinitialize) ==
    LET m == st.manager
        existing_handler ==
            IF provider_name = "GEMINI" THEN m._gemini_handler
            ELSE IF provider_name = "MISTRAL" THEN m._mistral_handler
            ELSE NoProvider IN
    IF existing_handler # NoProvider /\ ~force_reinitialize
      THEN [manager |-> m, llm_handler |-> existing_handler, returned |-> existing_handler]
      ELSE initialize_provider_every_time(st, provider_name, force_reinitialize)

\* initialize_provider(provider_name, force_reinitialize), run on the globals
\* st = [manager, llm_handler]; returned is the value it returns (NoProvider for
\* None).  config tells whether the API key of the name is missing ("no_key"),
\* or provider.initialize() returns False or raises ("fails"), or works ("ok").
\* The coroutine has no suspension point: provider.initialize awaits nothing.
initialize_provider(st, provider_name, force_reinitialize) ==
    LET m == st.manager
        existing_handler ==
            IF provider_name = "GEMINI" THEN m._gemini_handler
            ELSE IF provider_name = "MISTRAL" THEN m._mistral_handler
            ELSE NoProvider
        provider == configured_provider(provider_name,
                                        m.setups.GEMINI + m.setups.MISTRAL + 1)
        ran == [m EXCEPT !.setups[provider_name] = @ + 1]
        stored(h) == IF provider_name = "GEMINI"
                       THEN [ran EXCEPT !._gemini_handler = h]
                       ELSE [ran EXCEPT !._mistral_handler = h] IN
    IF existing_handler # NoProvider /\ ~force_reinitialize
      THEN [manager |-> [m EXCEPT !._current_provider_name = provider_name],
            llm_handler |-> existing_handler,
            returned |-> existing_handler]
    ELSE IF provider_name \notin {"GEMINI", "MISTRAL"}
      THEN [st EXCEPT !.returned = NoProvider]
    ELSE IF m.config[provider_name] = "no_key"
      THEN [st EXCEPT !.returned = NoProvider]
    ELSE IF m.config[provider_name] = "ok"
      THEN [manager |-> [stored(provider) EXCEPT !._current_provider_name = provider_name],
            llm_handler |-> provider,
            returned |-> provider]
    ELSE [manager |-> stored(NoProvider),
          llm_handler |-> IF st.llm_handler = provider THEN NoProvider ELSE st.llm_handler,
          returned |-> NoProvider]

\* a variant of switch_provider without the test for the active name
switch_provider_without_test(st, target_provider_name) ==
    LET new == initialize_provider(st, target_provider_name, FALSE) IN
    [manager |-> new.manager, llm_handler |-> new.llm_handler,
     returned |-> new.returned, success |-> new.returned # NoProvider]

\* a variant of switch_provider that gives up the active provider on failure
switch_provider_giving_up(st, target_provider_name) ==
    IF target_provider_name = st.manager._current_provider_name
      THEN [st EXCEPT !.success = FALSE]
    ELSE LET new == initialize_provider(st, target_provider_name, FALSE) IN
         IF new.returned # NoProvider
           THEN [manager |-> new.manager, llm_handler |-> new.returned,
                 returned |-> new.returned, success |-> TRUE]
           ELSE [manager |-> new.manager, llm_handler |-> NoProvider,
                 returned |-> NoProvider, success |-> FALSE]

\* switch_provider(target_provider_name) on the same globals; success is the
\* flag of the returned (bool, message) pair
switch_provider(st, target_provider_name) ==
    IF target_provider_name = st.manager._current_provider_name
      THEN [st EXCEPT !.success = FALSE]
    ELSE LET new == initialize_provider(st, target_provider_name, FALSE) IN
         IF new.returned # NoProvider
           THEN [manager |-> [new.manager EXCEPT
                                !._current_provider_name = target_provider_name],
                 llm_handler |-> new.returned,
                 returned |-> new.returned,
                 success |-> TRUE]
         ELSE LET again == initialize_provider(new, new.manager._current_provider_name,
                                               FALSE) IN
              [manager |-> again.manager,
               llm_handler |-> IF again.returned = NoProvider THEN NoProvider
                               ELSE again.llm_handler,
               returned |-> NoProvider,
               success |-> FALSE]

\* a call of initialize_provider
InitializeProvider(provider_name, force_reinitialize) ==
    /\ manager.ncalls < MaxManagerCalls
    /\ LET st == [manager |-> manager, llm_handler |-> llm_handler, returned |-> NoProvider]
           r == initialize_provider(st, provider_name, force_reinitialize) IN
       /\ llm_handler' = r.llm_handler
       /\ manager' = [r.manager EXCEPT
                        !.ncalls = @ + 1,
                        !.last = [op |-> "initialize_provider", name |-> provider_name,
                                  force |-> force_reinitialize,
                                  before |-> manager._current_provider_name,
                                  active_before |-> llm_handler,
                                  returned |-> r.returned,
                                  success |-> r.returned # NoProvider]]
    /\ UNCHANGED <<dispatch, cacheVars, compactVars, uiVars>>

\* a call of switch_provider (the provider command of command_handler)
SwitchProvider(target_provider_name) ==
    /\ manager.ncalls < MaxManagerCalls
    /\ LET st == [manager |-> manager, llm_handler |-> llm_handler,
                  returned |-> NoProvider, success |-> FALSE]
           r == switch_provider(st, target_provider_name) IN
       /\ llm_handler' = r.llm_handler
       /\ manager' = [r.manager EXCEPT
                        !.ncalls = @ + 1,
                        !.last = [op |-> "switch_provider", name |-> target_provider_name,
                                  force |-> FALSE,
                                  before |-> manager._current_provider_name,
                                  active_before |-> llm_handler,
                                  returned |-> r.returned,
                                  success |-> r.success]]
    /\ UNCHANGED <<dispatch, cacheVars, compactVars, uiVars>>

\* llm_manager after import: nothing initialized, the current name is the
\* configured initial one; the settings of the two providers are fixed
InitManager ==
    /\ llm_handler = NoProvider
    /\ \E c \in [{"GEMINI", "MISTRAL"} -> {"ok", "no_key", "fails"}],
          n \in {"GEMINI", "MISTRAL"} :
          manager = [ManagerFor(NoProvider) EXCEPT !.config = c,
                                                   !._current_provider_name = n]
    /\ dispatch = IdleDispatch
    /\ CACHE_LIMIT = 1
    /\ InitCacheStore
    /\ InitNoCompaction

NextManager ==
    \/ \E n \in ProviderNames, f \in BOOLEAN : InitializeProvider(n, f)
    \/ \E n \in ProviderNames : SwitchProvider(n)

SpecManager == InitManager /\ [][NextManager]_vars

\* ------------------------------------------- properties of llm_manager
\* C14: switch_provider(name) called while name is the active provider and an
\* adapter is active reports success and changes neither the active adapter,
\* the active provider name, nor a registered adapter.
C14_SwitchToActiveSucceedsUnchanged ==
    [][ (/\ manager'.ncalls = manager.ncalls + 1
         /\ manager'.last.op = "switch_provider"
         /\ manager'.last.name = manager._current_provider_name
         /\ llm_handler # NoProvider)
        => /\ manager'.last.success
           /\ llm_handler' = llm_handler
           /\ manager'._current_provider_name = manager._current_provider_name
           /\ manager'._gemini_handler = manager._gemini_handler
           /\ manager'._mistral_handler = manager._mistral_handler ]_vars

\* C15: when switch_provider(name) fails to initialize the target, the active
\* adapter and the active provider name are the same after the call as before
\* it; and the active adapter is always one whose initialization succeeded.
C15_FailedSwitchLeavesActive ==
    /\ [][ (/\ manager'.ncalls = manager.ncalls + 1
            /\ manager'.last.op = "switch_provider"
            /\ manager'.last.name # manager._current_provider_name
            /\ ~manager'.last.success)
           => /\ llm_handler' = llm_handler
              /\ manager'._current_provider_name = manager._current_provider_name ]_vars
    /\ [](llm_handler # NoProvider =>
            /\ llm_handler \in {manager._gemini_handler, manager._mistral_handler}
            /\ manager.config[manager._current_provider_name] = "ok")

\* C14 as the code has it: switch_provider(name) called while name is the
\* active provider name changes neither the active adapter, the active name nor
\* a registered adapter, runs no setup, and returns the flag False (with the
\* message that the provider is already in use).
C14_SwitchToActiveUnchanged ==
    [][ (/\ manager'.ncalls = manager.ncalls + 1
         /\ manager'.last.op = "switch_provider"
         /\ manager'.last.name = manager._current_provider_name)
        => /\ ~manager'.last.success
           /\ llm_handler' = llm_handler
           /\ manager'._current_provider_name = manager._current_provider_name
           /\ manager'._gemini_handler = manager._gemini_handler
           /\ manager'._mistral_handler = manager._mistral_handler
           /\ manager'.setups = manager.setups ]_vars

\* switch_provider was called with the name of the active adapter
C14_Witness ==
    /\ manager.last.op = "switch_provider"
    /\ manager.last.name = manager.last.before
    /\ manager.last.active_before # NoProvider
    /\ llm_handler = manager.last.active_before

\* C15 as the code has it: when switch_provider(name) fails to initialize the
\* target, the active provider name is the same after the call as before it,
\* and an adapter that was active before the call is still the active one;
\* when no adapter was active, the call initializes the provider of the
\* current name again and leaves it active if that succeeds.  The active
\* adapter is always a registered one whose initialization succeeded.
C15_FailedSwitchKeepsActiveAdapter ==
    /\ [][ (/\ manager'.ncalls = manager.ncalls + 1
            /\ manager'.last.op = "switch_provider"
            /\ manager'.last.name # manager._current_provider_name
            /\ ~manager'.last.success)
           => /\ manager'._current_provider_name = manager._current_provider_name
              /\ llm_handler # NoProvider => llm_handler' = llm_handler
              /\ llm_handler = NoProvider =>
                   llm_handler' = IF manager._current_provider_name = "GEMINI"
                                    THEN manager'._gemini_handler
                                    ELSE manager'._mistral_handler ]_vars
    /\ [](llm_handler # NoProvider =>
            /\ llm_handler \in {manager._gemini_handler, manager._mistral_handler}
            /\ manager.config[manager._current_provider_name] = "ok")

\* a switch to a provider without an API key failed while an adapter was active
C15_Witness ==
    /\ manager.last.op = "switch_provider"
    /\ manager.last.name # manager.last.before
    /\ manager.last.name \in {"GEMINI", "MISTRAL"}
    /\ ~manager.last.success
    /\ manager.last.active_before # NoProvider
    /\ llm_handler = manager.last.active_before
    /\ manager._current_provider_name = manager.last.before

\* C16: without a forced re-initialize, a call of initialize_provider or
\* switch_provider runs no setup for a provider name whose adapter is
\* registered and leaves that registration alone; initialize_provider(name)
\* then returns the registered adapter; setup runs only for the requested names
\* with no registered adapter, once per call.  The calls contain no suspension
\* point (the awaited provider.initialize never suspends), so two first-time
\* calls run one after the other and the second finds the adapter of the first.
C16_SetupAtMostOnce ==
    [][ (/\ manager'.ncalls = manager.ncalls + 1
         /\ ~manager'.last.force)
        => LET n == manager'.last.name
               registered(mg, name) == IF name = "GEMINI" THEN mg._gemini_handler
                                       ELSE IF name = "MISTRAL" THEN mg._mistral_handler
                                       ELSE NoProvider IN
           /\ \A name \in {"GEMINI", "MISTRAL"} :
                /\ registered(manager, name) # NoProvider =>
                     /\ manager'.setups[name] = manager.setups[name]
                     /\ registered(manager', name) = registered(manager, name)
                /\ manager'.setups[name] <= manager.setups[name] + 1
                /\ (manager'.setups[name] > manager.setups[name]
                      /\ manager.config[name] = "ok") =>
                     registered(manager', name) # NoProvider
           /\ (manager'.last.op = "initialize_provider"
                 /\ registered(manager, n) # NoProvider) =>
                /\ manager'.last.returned = registered(manager, n)
                /\ llm_handler' = registered(manager, n) ]_vars

\* a second initialize_provider("GEMINI") returned the adapter that the first
\* one had set up
C16_Witness ==
    /\ manager.ncalls >= 2
    /\ manager.last.op = "initialize_provider"
    /\ ~manager.last.force
    /\ manager.last.name = "GEMINI"
    /\ manager.last.returned # NoProvider
    /\ manager.last.returned = manager._gemini_handler
    /\ manager.last.active_before = manager.last.returned
    /\ manager.setups["GEMINI"] = 1

\* ------------------------------- dispatches while the provider is switched
\* !provider switches the provider while the generation of a mention is awaited
InitDispatchSwitch ==
    /\ InitManager
    /\ manager.config = [GEMINI |-> "ok", MISTRAL |-> "ok"]

NextDispatchSwitch ==
    \/ NextDispatch
    \/ NextManager

SpecDispatchSwitch == InitDispatchSwitch /\ [][NextDispatchSwitch]_vars

\* C17: a dispatch keeps the adapter that was active when it started, whatever
\* switch_provider does meanwhile: each of its backend calls, the fallback call
\* included, goes to a model of that adapter, and a dispatch that starts after
\* a switch takes the adapter that is active then.
C17_InFlightKeepsAdapter ==
    /\ [](dispatch.pc # "idle" =>
            \A i \in 1..Len(dispatch.calls) :
                /\ dispatch.handler # NoProvider
                /\ dispatch.calls[i].model =
                     IF dispatch.calls[i].slot = "primary"
                       THEN dispatch.handler.primary_model_name
                       ELSE dispatch.handler.secondary_model_name)
    /\ [][ /\ (dispatch.pc = "idle" /\ dispatch'.pc # "idle") =>
                dispatch'.handler = llm_handler
           /\ (dispatch.pc # "idle" /\ dispatch'.pc # "idle") =>
                dispatch'.handler = dispatch.handler ]_vars

\* the fallback call of a dispatch was made on the adapter of its primary call
\* although another adapter had become the active one
C17_Witness ==
    /\ Len(dispatch.calls) = 2
    /\ dispatch.handler # NoProvider
    /\ llm_handler # NoProvider
    /\ llm_handler # dispatch.handler
    /\ manager.last.op = "switch_provider"
    /\ manager.last.success
    /\ manager.last.active_before = dispatch.handler
    /\ dispatch.calls[2].model = dispatch.handler.secondary_model_name
    /\ dispatch.calls[2].model # llm_handler.secondary_model_name

\* ------------------------------------------------- the two stores together
\* bot.py reset_cache(channel_id): the window file is removed
reset_cache(ch) ==
    /\ cache' = [cache EXCEPT ![ch] = <<>>]
    /\ UNCHANGED <<CACHE_LIMIT, handoffs, req, nreq, appended, last_save>>
    /\ UNCHANGED <<dispatchVars, compactVars, manager, uiVars>>

\* the mentions served while the two stores are looked at together
MaxStoreRequests == 2

\* the outcomes of a low-load call the store is looked at with: a summary, a
\* failure
StoreOutcomes ==
    { Response(FALSE, "STOP", TRUE, <<"- likes dogs">>),
      Raise("APIError", 500, <<"failed">>) }

\* the files found at start: channel c2 has a window and a summary; channel c1
\* has none, well-formed ones, a file json.loads rejects, a file that is not
\* utf-8, or a window whose entry has no 'parts'
InitStore ==
    /\ llm_handler = Provider("GeminiProvider", "gemini-pro", "gemini-flash", "gemini-flash")
    /\ manager = ManagerFor(llm_handler)
    /\ dispatch = IdleDispatch
    /\ CACHE_LIMIT = 1
    /\ \E window \in { <<>>,
                        <<Turn("user", <<"hello">>, -1), Turn("model", <<"ok">>, 0)>>,
                        <<[malformed |-> "not_json"]>>,
                        <<[malformed |-> "not_utf8"]>>,
                        <<[role |-> "user"]>> } :
          cache = [ch \in Channels |->
                     IF ch = "c1" THEN window
                     ELSE <<Turn("user", <<"hello">>, -1), Turn("model", <<"ok">>, 0)>>]
    /\ \E file \in InitialFiles \cup
                    { [exists |-> TRUE, summary |-> <<>>, malformed |-> k] :
                        k \in {"not_json", "not_utf8"} } :
          deep_cache = [ch \in Channels |->
                          IF ch = "c1" THEN file
                          ELSE saved_deep_cache(Some(<<"- likes cats">>))]
    /\ handoffs = <<>>
    /\ req = [r \in Reqs |-> IdleReq]
    /\ nreq = 0
    /\ InitUI
    /\ appended = [ch \in Channels |-> <<>>]
    /\ last_save = NoSave
    /\ task = [t \in Tasks |-> IdleTask]

\* a mention, a compaction and !cclear on the two channels, and reset_cache on
\* the channel whose files may be corrupt (bot.py calls it for such a file), in
\* any order
NextStore ==
    \/ \E ch \in Channels : nreq < MaxStoreRequests /\ MentionLoad("r1", ch)
    \/ \E text \in {<<"ok">>, <<bot_constants.ERROR_MSG_GEMINI_UNKNOWN>>} :
          MentionRespond("r1", text)
    \/ \E ch \in Channels :
          DC_Start("t1", ch, <<Turn("user", <<"hello">>, -1), Turn("model", <<"ok">>, 0)>>)
    \/ \E o \in StoreOutcomes : DC_Extracted("t1", o)
    \/ DC_Load("t1")
    \/ \E o \in StoreOutcomes : DC_Merged("t1", o)
    \/ DC_Save("t1")
    \/ DC_Finished("t1")
    \/ \E ch \in Channels : ClearDeepCache(ch)
    \/ reset_cache("c1")

SpecStore == InitStore /\ [][NextStore]_vars

\* ------------------------------------------------ properties of the stores
\* C13: a mention, a compaction, !cclear, reset_cache or the repair of a
\* corrupt file on one channel leaves the window file and the summary file of
\* the other channel as they were.
C13_OtherConversationUntouched ==
    [][ \A a \in Channels : \A b \in Channels \ {a} :
          (\/ \E r \in Reqs : MentionLoad(r, a)
           \/ \E r \in Reqs, text \in ResponseTexts :
                 req[r].channel_id = a /\ MentionRespond(r, text)
           \/ \E t \in Tasks, h \in OldHistories
                               \cup {<<Turn("user", <<"hello">>, -1),
                                       Turn("model", <<"ok">>, 0)>>} :
                 DC_Start(t, a, h)
           \/ \E t \in Tasks :
                 /\ task[t].channel_id = a
                 /\ \/ \E o \in StoreOutcomes : DC_Extracted(t, o) \/ DC_Merged(t, o)
                    \/ DC_Load(t) \/ DC_Save(t) \/ DC_Finished(t)
           \/ ClearDeepCache(a)
           \/ reset_cache(a))
          => /\ cache'[b] = cache[b]
             /\ deep_cache'[b] = deep_cache[b] ]_vars

\* while channel c2 still has its window and its summary, channel c1 has been
\* repaired, written by a mention and by a compaction
C13_Witness ==
    /\ cache["c2"] = <<Turn("user", <<"hello">>, -1), Turn("model", <<"ok">>, 0)>>
    /\ deep_cache["c2"] = saved_deep_cache(Some(<<"- likes cats">>))
    /\ appended["c1"] # <<>>
    /\ appended["c2"] = <<>>
    /\ cache["c1"] # <<>>
    /\ task["t1"].channel_id = "c1"
    /\ task["t1"].saved
    /\ deep_cache["c1"] = saved_deep_cache(Some(<<"- likes dogs">>))

C19_ResetClearsWindowAndSummary ==
    [][ \A ch \in Channels :
          ClearDeepCache(ch) =>
            /\ decoded_cache(cache'[ch]) = <<>>
            /\ StrOrEmpty(decoded_deep_cache(deep_cache'[ch])) = <<>> ]_vars

\* C19 as the code has it: !cclear empties the summary file of the channel and
\* leaves its window file alone, so that a load returns no summary text and the
\* window of before; reset_cache removes the window file and leaves the
\* summary file alone.
C19_ResetClearsSummaryOnly ==
    [][ /\ \A ch \in Channels :
             ClearDeepCache(ch) =>
               /\ StrOrEmpty(decoded_deep_cache(deep_cache'[ch])) = <<>>
               /\ cache' = cache
               /\ decoded_cache(cache'[ch]) = decoded_cache(cache[ch])
        /\ \A ch \in Channels :
             reset_cache(ch) =>
               /\ decoded_cache(cache'[ch]) = <<>>
               /\ deep_cache' = deep_cache ]_vars

\* !cclear has emptied the summary a compaction had saved for channel c1, and
\* the window of the channel still holds its turns
C19_Witness ==
    /\ task["t1"].pc = "done"
    /\ task["t1"].channel_id = "c1"
    /\ task["t1"].saved
    /\ deep_cache["c1"] = saved_deep_cache(None)
    /\ decoded_cache(cache["c1"]) # <<>>
    /\ appended["c1"] # <<>>

\* C20: a load of a channel whose window file or summary file is malformed
\* returns no turn and no summary, leaves an empty record in place of the
\* malformed one, and so does every load until the next write.
C20_MalformedLoadsEmptyAndDiscarded ==
    [][ \A r \in Reqs, ch \in Channels :
          MentionLoad(r, ch) =>
            /\ (\E i \in 1..Len(cache[ch]) :
                   {"role", "parts"} \ DOMAIN cache[ch][i] # {}) =>
                 /\ req'[r].chat_history = <<>>
                 /\ cache'[ch] = <<>>
            /\ "malformed" \in DOMAIN deep_cache[ch] =>
                 /\ StrOrEmpty(req'[r].deep_cache_summary) = <<>>
                 /\ deep_cache'[ch] \in {NoFile, saved_deep_cache(None)} ]_vars

\* ============================================ attachments in the window file
\* the window file of channel c1 is missing, or holds an entry whose first
\* image can not be decoded (a text of five characters), followed by a text
\* and an image that can
InitAttach ==
    /\ CACHE_LIMIT = 2
    /\ cache \in
         { [ch \in Channels |-> <<>>],
           [ch \in Channels |->
              IF ch = "c1"
                THEN <<[role |-> "user",
                        parts |-> <<[inline_data |->
                                       [mime_type |-> "image/png",
                                        data |-> Str(<<19, 22, 5, 46, 1>>)]],
                                    [text |-> <<"hello">>],
                                    [inline_data |->
                                       [mime_type |-> "image/png",
                                        data |-> Str(b64encode(<<7, 8>>))]]>>,
                        id |-> 0]>>
                ELSE <<>>] }
    /\ handoffs = <<>>
    /\ req = [r \in Reqs |-> IdleReq]
    /\ nreq = 0
    /\ InitUI
    /\ appended = [ch \in Channels |-> <<>>]
    /\ last_save = NoSave
    /\ InitProvider
    /\ InitNoCompaction

\* mentions with no, one or two images on channel c1, one at a time
NextAttach ==
    \/ \E a \in {<<>>}
                \cup { <<[mime_type |-> "image/png", data |-> Bytes(b)]>> :
                         b \in {<<>>, <<255>>, <<1, 2, 3>>, <<250, 251, 252, 253>>} }
                \cup { <<[mime_type |-> "image/jpeg", data |-> Bytes(<<77, 0>>)]>>,
                       <<[mime_type |-> "image/png", data |-> Bytes(<<255>>)],
                         [mime_type |-> "image/jpeg", data |-> Bytes(<<77, 0>>)]>> } :
          MentionLoadWith("r1", "c1", a)
    \/ \E t \in {<<"ok">>, <<bot_constants.ERROR_MSG_GEMINI_UNKNOWN>>} : MentionRespond("r1", t)

SpecAttach == InitAttach /\ [][NextAttach]_vars

\* C21: what load_cache returns for the file that save_cache wrote has, turn
\* by turn, the images of the turns handed to the write, in order, each with
\* its MIME type and its bytes; and of the parts of a stored turn exactly
\* those whose data can not be decoded are missing from the loaded turn.
C21_AttachmentRoundTrip ==
    /\ last_save # NoSave =>
         LET written == last_save.to_save
             loaded == decoded_cache(cache[last_save.channel_id])
             blobs(parts) == SelectSeq(parts, LAMBDA p : "inline_data" \in DOMAIN p) IN
         /\ Len(loaded) = Len(written)
         /\ \A i \in 1..Len(written) :
              /\ blobs(loaded[i].parts) = blobs(written[i].parts)
              /\ \A j \in 1..Len(blobs(written[i].parts)) :
                   blobs(written[i].parts)[j].inline_data.data.type = "bytes"
    /\ \A ch \in Channels :
         LET file == cache[ch]
             loaded == decoded_cache(file)
             decodes(p) == \/ "text" \in DOMAIN p
                           \/ /\ "inline_data" \in DOMAIN p
                              /\ p.inline_data.data.type = "str"
                              /\ ~b64decode(p.inline_data.data.value).raised IN
         \A i \in 1..Len(file) :
             LET kept == SelectSeq(file[i].parts, decodes) IN
             /\ Len(loaded[i].parts) = Len(kept)
             /\ \A j \in 1..Len(kept) :
                  /\ DOMAIN loaded[i].parts[j] = DOMAIN kept[j]
                  /\ "text" \in DOMAIN kept[j] => loaded[i].parts[j] = kept[j]
                  /\ "inline_data" \in DOMAIN kept[j] =>
                       /\ loaded[i].parts[j].inline_data.mime_type = kept[j].inline_data.mime_type
                       /\ b64encode(loaded[i].parts[j].inline_data.data.value)
                            = kept[j].inline_data.data.value

\* the stored turn was loaded without its undecodable image and written again,
\* and the turn of the mention was written with an image of two bytes
C21_Witness ==
    /\ last_save # NoSave
    /\ Len(last_save.to_save) >= 2
    /\ last_save.to_save[1].id = 0
    /\ last_save.to_save[1].parts
         = <<[text |-> <<"hello">>],
             [inline_data |-> [mime_type |-> "image/png", data |-> Bytes(<<7, 8>>)]]>>
    /\ \E j \in 1..Len(cache["c1"][2].parts) :
         /\ "inline_data" \in DOMAIN cache["c1"][2].parts[j]
         /\ cache["c1"][2].parts[j].inline_data.mime_type = "image/jpeg"
         /\ cache["c1"][2].parts[j].inline_data.data = Str(<<19, 16, 0, Pad>>)
    /\ decoded_cache(cache["c1"])[2].parts = last_save.to_save[2].parts

\* ================================ exceptions that leave the provider object
\* LLMProvider.is_invalid_argument_error(e) of the provider h
is_invalid_argument_error(h, e) ==
    IF h.cls = "GeminiProvider"
      THEN e.cls = "APIError" /\ (e.status_code = 400 \/ Has(e.message, "invalid"))
    ELSE IF h.cls = "OpenAICompatibleProvider"
      THEN e.cls = "APIStatusError" /\ e.status_code \in {400, 422}
    ELSE e.cls = "MistralAPIException" /\ e.status_code \in {400, 422}

\* a variant without the except block: the exception reaches the caller
generate_response_uncaught(h, name, e) == [raised |-> TRUE, exc |-> e]

\* a variant that answers every exception with the internal-error message
generate_response_internal(h, name, e) ==
    Result(name, <<bot_constants.ERROR_MSG_INTERNAL, "(Error formatting message:">>
                 \o e.message \o <<")">>)

\* llm_manager.generate_response, the except block: h is _llm_handler and name
\* is _current_provider_name when the exception arrives; str(e) is e.message
generate_response_except(h, name, e) ==
    IF h.cls = "None"
      THEN Result(name, <<bot_constants.ERROR_MSG_INTERNAL, "(Error formatting message:">>
                        \o e.message \o <<")">>)
    ELSE
      LET error_type ==
              IF is_rate_limit_error(h, e) THEN llm_provider.ERROR_TYPE_RATE_LIMIT
              ELSE IF is_invalid_argument_error(h, e)
                THEN llm_provider.ERROR_TYPE_INVALID_ARGUMENT
              ELSE llm_provider.ERROR_TYPE_UNKNOWN
      IN Result(name,
                IF h.cls = "GeminiProvider"
                  THEN gemini_format_error_message(error_type, e.message)
                ELSE IF h.cls = "OpenAICompatibleProvider"
                  THEN openai_format_error_message(error_type, e.message)
                ELSE mistral_format_error_message(error_type, e.message))

\* The awaited _llm_handler.generate_response raises e instead of returning: an
\* exception of the SDK, or one raised by the provider's own code, that none of
\* its except blocks holds back.
AdapterRaises(e) ==
    /\ dispatch.pc \in {"primary", "secondary"}
    /\ e \in { o \in OutcomesOf(bound_handler) : o.kind = "raise" } \cup {TypeError}
    /\ dispatch' = [dispatch EXCEPT
                       !.pc = "done",
                       !.outcomes = Append(@, [e EXCEPT !.kind = "escaped"]),
                       !.results = Append(@, generate_response_except(
                                                llm_handler,
                                                manager._current_provider_name, e))]
    /\ UNCHANGED <<llm_handler, cacheVars, compactVars, manager, uiVars>>

NextDispatchRaise ==
    \/ NextDispatch
    \/ \E e \in { o \in GeminiOutcomesWith(ReplyTexts) \cup OpenAIOutcomesWith(ReplyTexts)
                        \cup MistralOutcomesWith(ReplyTexts) : o.kind = "raise" }
                \cup {TypeError} : AdapterRaises(e)

SpecDispatchRaise == InitDispatch /\ [][NextDispatchRaise]_vars

C24_ErrorRequestWritesNothing ==
    [][((\E ch \in Channels : MentionLoad("r1", ch))
        \/ (\E text \in ResponseTexts : is_error_message(text) /\ MentionRespond("r1", text)))
       => (cache' = cache /\ deep_cache' = deep_cache)]_vars

\* C24 (amended): a request whose response is an error message writes nothing
\* after its loads: window file, summary file and the turns handed to the
\* compaction stay as they are.  The loads write in one case only: a file that
\* json.loads rejects is replaced by an empty one; what the window and the
\* summary decode to - the turns, the text of the summary - is the same before
\* and after the loads.
C24_ErrorRequestKeepsStores ==
    [][/\ (\E text \in ResponseTexts : is_error_message(text) /\ MentionRespond("r1", text))
          => (cache' = cache /\ deep_cache' = deep_cache /\ handoffs' = handoffs)
       /\ (\E ch \in Channels : MentionLoad("r1", ch))
          => \A c \in Channels :
               /\ decoded_cache(cache'[c]) = decoded_cache(cache[c])
               /\ decoded_deep_cache(deep_cache'[c]).text = decoded_deep_cache(deep_cache[c]).text
               /\ cache'[c] # cache[c]
                    => /\ c = req'["r1"].channel_id
                       /\ undecodable(cache[c]) = "not_json"
                       /\ cache'[c] = <<>>
               /\ deep_cache'[c] # deep_cache[c]
                    => /\ c = req'["r1"].channel_id
                       /\ "malformed" \in DOMAIN deep_cache[c]
                       /\ deep_cache[c].malformed = "not_json"
                       /\ deep_cache'[c] = saved_deep_cache(None)
               /\ handoffs' = handoffs]_vars

\* the one request served so far ended in an error message: nothing was
\* appended, and the window and the summary of its channel are the ones found
\* at start
C24_Witness ==
    /\ nreq = 1
    /\ req["r1"] = IdleReq
    /\ appended = [ch \in Channels |-> <<>>]
    /\ handoffs = <<>>
    /\ cache["c1"] = <<Turn("user", <<"hello">>, -1), Turn("model", <<"ok">>, 0)>>
    /\ deep_cache["c1"] = saved_deep_cache(Some(<<"- likes cats">>))
    /\ task["t1"] = IdleTask

\* ================================================== summarize_deep_cache
\* a variant that stores whatever the compression call gave
CS_Summarized_storing_anything(t, o) ==
    /\ task[t].pc = "summarizing"
    /\ o \in LowloadOutcomesOf(llm_handler)
    /\ LET cleaned_summary == StrOrEmpty(generate_lowload_response(o)) IN
       /\ deep_cache' = [deep_cache EXCEPT
                           ![task[t].channel_id] = saved_deep_cache(Some(cleaned_summary))]
       /\ task' = [task EXCEPT
                     ![t].pc = "done",
                     ![t].merged_raw = generate_lowload_response(o),
                     ![t].final_summary = cleaned_summary,
                     ![t].saved = TRUE,
                     ![t].returned = [success |-> TRUE,
                                      message |-> <<"summary compressed">> \o cleaned_summary]]
    /\ UNCHANGED <<cacheVars, dispatchVars, manager, uiVars>>

\* a variant of !csum that goes on to the compression call without a summary
CS_Start_without_summary(t, ch) ==
    /\ task[t].pc = "idle"
    /\ task' = [task EXCEPT ![t] =
                  [IdleTask EXCEPT !.channel_id = ch,
                                   !.file_at_start = deep_cache[ch],
                                   !.pc = "summarizing",
                                   !.existing_summary = load_deep_cache(ch)]]
    /\ UNCHANGED <<deep_cache, cacheVars, dispatchVars, manager, uiVars>>

\* summarize_deep_cache(channel_id) (!csum) up to the compression call: it
\* fails at once without a provider, without a low-load model or without a
\* summary to compress
CS_Start(t, ch) ==
    /\ task[t].pc = "idle"
    /\ LET existing_summary == load_deep_cache(ch)
           started == [IdleTask EXCEPT !.channel_id = ch,
                                       !.file_at_start = deep_cache[ch],
                                       !.pc = "done"]
           failed(message) ==
               [started EXCEPT !.returned = [success |-> FALSE, message |-> message]] IN
       IF llm_handler.cls = "None"
         THEN /\ task' = [task EXCEPT ![t] =
                            failed(<<bot_constants.ERROR_MSG_INTERNAL, "(no LLM)">>)]
              /\ UNCHANGED deep_cache
       ELSE IF llm_handler.lowload_model_name = ""
         THEN /\ task' = [task EXCEPT ![t] =
                            failed(<<bot_constants.ERROR_MSG_LOWLOAD_UNAVAILABLE,
                                     manager._current_provider_name>>)]
              /\ UNCHANGED deep_cache
       ELSE /\ load_deep_cache_heals(ch)
            /\ IF ~has_summary(existing_summary)
                 THEN task' = [task EXCEPT ![t] = failed(<<"nothing is recorded">>)]
                 ELSE task' = [task EXCEPT ![t] =
                                 [started EXCEPT !.pc = "summarizing",
                                                 !.had_summary = TRUE,
                                                 !.existing_summary = existing_summary]]
    /\ UNCHANGED <<cacheVars, dispatchVars, manager, uiVars>>

\* the compression call comes back with outcome o: an accepted text replaces
\* the summary, anything else is reported as a failure
CS_Summarized(t, o) ==
    /\ task[t].pc = "summarizing"
    /\ o \in LowloadOutcomesOf(llm_handler)
    /\ LET cleaned_summary_raw == generate_lowload_response(o)
           cleaned_summary == StrOrEmpty(cleaned_summary_raw) IN
       IF Strip(cleaned_summary) = <<>> \/ is_error_message(cleaned_summary)
         THEN /\ task' = [task EXCEPT
                            ![t].pc = "done",
                            ![t].merged_raw = cleaned_summary_raw,
                            ![t].returned =
                                [success |-> FALSE,
                                 message |-> <<bot_constants.ERROR_MSG_DEEP_CACHE_FAIL,
                                               "compression failed">>]]
              /\ UNCHANGED deep_cache
         ELSE /\ deep_cache' = [deep_cache EXCEPT
                                  ![task[t].channel_id] =
                                      saved_deep_cache(Some(cleaned_summary))]
              /\ task' = [task EXCEPT
                            ![t].pc = "done",
                            ![t].merged_raw = cleaned_summary_raw,
                            ![t].final_summary = cleaned_summary,
                            ![t].saved = TRUE,
                            ![t].returned =
                                [success |-> TRUE,
                                 message |-> <<"summary compressed">> \o cleaned_summary]]
    /\ UNCHANGED <<cacheVars, dispatchVars, manager, uiVars>>

\* !csum and !cclear, one command at a time
NextSummarize ==
    \/ \E ch \in Channels : NoTaskRunning /\ CS_Start("t1", ch)
    \/ \E o \in GeminiOutcomesWith(LowloadTexts) \cup OpenAIOutcomesWith(LowloadTexts) :
          CS_Summarized("t1", o)
    \/ DC_Finished("t1")
    \/ \E ch \in Channels : NoTaskRunning /\ ClearDeepCache(ch)

SpecSummarize == InitCompact /\ [][NextSummarize]_vars

\* C25: summarize_deep_cache returns failure with a reason and leaves the
\* stored summary as it was when there is no summary to compress or when the
\* compression call fails (no text, a blank text or an error message, also no
\* provider or no low-load model); only when the compression call gives a text
\* does it store that text as the summary and return success.
C25_SummarizeFailsOrReplaces ==
    LET T == task["t1"]
        file == deep_cache[T.channel_id]
        compressed == /\ T.had_summary
                      /\ ~T.merged_raw.none
                      /\ Strip(T.merged_raw.text) # <<>>
                      /\ ~_is_error_message(T.merged_raw.text) IN
    /\ T.pc = "summarizing" => file = T.file_at_start
    /\ T.pc = "done" =>
         /\ T.returned.message # <<>>
         /\ T.returned.success <=> compressed
         /\ T.returned.success <=> T.saved
         /\ ~T.returned.success => file = T.file_at_start
         /\ T.returned.success =>
              /\ file = saved_deep_cache(Some(T.merged_raw.text))
              /\ has_summary(T.existing_summary)
              /\ llm_handler.lowload_model_name # ""

\* the summary "- likes cats" was compressed: success, and the file holds the
\* text of the low-load model
C25_Witness ==
    /\ task["t1"].pc = "done"
    /\ task["t1"].returned.success
    /\ task["t1"].file_at_start = saved_deep_cache(Some(<<"- likes cats">>))
    /\ deep_cache[task["t1"].channel_id] = saved_deep_cache(Some(<<"- likes dogs">>))

\* ============================================ eviction and its compaction
\* Requests served one at a time whose save_cache creates a task for each
\* overflow: asyncio.create_task(update_deep_cache(channel_id, old part)).  The
\* task of the i-th overflow is the i-th of Tasks; it starts running at the next
\* suspension of the coroutine that created it and goes on across requests.
NextEvict ==
    \/ \E ch \in Channels : OneAtATime /\ MentionLoad("r1", ch)
    \/ \E text \in ResponseTexts : MentionRespond("r1", text)
    \/ \E i \in 1..2 :
          /\ Len(handoffs) >= i
          /\ DC_Start(<<"t1", "t2">>[i], handoffs[i].channel_id, handoffs[i].old_history)
    \/ \E t \in Tasks, o \in StoreOutcomes : DC_Extracted(t, o)
    \/ \E t \in Tasks : DC_Load(t)
    \/ \E t \in Tasks, o \in StoreOutcomes : DC_Merged(t, o)
    \/ \E t \in Tasks : DC_Save(t)

SpecEvict == InitCache /\ [][NextEvict]_vars

\* C26: the request that triggers an eviction writes its trimmed window and is
\* over in the step that hands the evicted turns to a new task: it takes no
\* step of a compaction and waits for none.  The compaction runs in steps of
\* its own, and none of them, a failed low-load call included, changes a window
\* file, the turns appended by the requests, what was handed over or a request.
C26_EvictionDoesNotWait ==
    [][/\ (\E text \in ResponseTexts : MentionRespond("r1", text))
          => /\ task' = task
             /\ deep_cache' = deep_cache
             /\ req'["r1"] = IdleReq
             /\ handoffs' # handoffs
                  => /\ last_save'.overflow
                     /\ handoffs' = Append(handoffs,
                                           [channel_id |-> last_save'.channel_id,
                                            old_history |-> last_save'.for_deep_cache])
                     /\ cache'[last_save'.channel_id] = encoded_history(last_save'.to_save)
       /\ task' # task
          => /\ cache' = cache
             /\ appended' = appended
             /\ handoffs' = handoffs
             /\ last_save' = last_save
             /\ req' = req]_vars

\* the request that evicted the first two turns is over and its window is
\* written, the next request is being served, and the extraction call of the
\* compaction of those turns has failed
C26_Witness ==
    /\ Len(handoffs) = 1
    /\ task["t1"].pc = "done"
    /\ task["t1"].old_history = handoffs[1].old_history
    /\ task["t1"].extracted_raw.none
    /\ ~task["t1"].saved
    /\ Len(cache[handoffs[1].channel_id]) = 2 * CACHE_LIMIT
    /\ req["r1"].pc = "generating"

\* =================================================== the low-load call
\* C27: generate_lowload_response returns None when there is no provider or no
\* low-load model and whenever the backend call fails (an exception, a blocked
\* prompt, a finish reason other than a normal stop, a response without
\* content); what it returns otherwise is never an error message.  The
\* compaction that called it holds that value.
C27_LowloadNoneOnFailure ==
    /\ \A o \in LowloadOutcomesOf(llm_handler) :
         LET r == generate_lowload_response(o) IN
         /\ (\/ llm_handler.cls = "None"
             \/ llm_handler.lowload_model_name = ""
             \/ o.kind = "raise"
             \/ o.block_reason
             \/ o.finish_reason \notin {"STOP", "stop", "tool_calls"}
             \/ ~o.has_parts) => r = None
         /\ ~r.none => ~_is_error_message(r.text)
    /\ \A t \in Tasks :
         /\ task[t].extracted_raw.none \/ ~_is_error_message(task[t].extracted_raw.text)
         /\ task[t].merged_raw.none \/ ~_is_error_message(task[t].merged_raw.text)
         /\ (llm_handler.cls = "None" \/ llm_handler.lowload_model_name = "")
              => (task[t].extracted_raw.none /\ task[t].merged_raw.none)

\* the merge call of a compaction failed after a successful extraction: the
\* task holds None for it and stores the extracted text
C27_Witness ==
    \E t \in Tasks :
        /\ task[t].pc = "saving"
        /\ llm_handler.lowload_model_name # ""
        /\ ~task[t].extracted_raw.none
        /\ task[t].merge_called
        /\ task[t].merged_raw.none
        /\ task[t].final_summary = task[t].extracted_summary

\* ================================================= the order of a request
\* C28 as stated: in the request of every backend call the persona comes first,
\* then the long-term summary under its marker when there is one, then the
\* texts of the history turns in their order, and the new content last.
C28_PersonaSummaryHistoryNew ==
    \A i \in 1..Len(dispatch.calls) :
        LET c == dispatch.calls[i]
            contents == [k \in 1..Len(c.request) |-> c.request[k].content]
            history == [k \in 1..Len(c.chat_history) |-> c.chat_history[k].parts[1].text] IN
        Concat(contents) =
            <<"PERSONA">>
            \o (IF c.deep_cache_summary # <<>>
                  THEN <<"SUMMARY_MARKER">> \o c.deep_cache_summary ELSE <<>>)
            \o Concat(history)
            \o <<"new">> \o (IF c.images THEN <<"IMAGE">> ELSE <<>>)

\* C28 (amended): the request of an OpenAI-compatible or Mistral provider holds
\* the persona first, then the long-term summary under its marker when there is
\* one, then the history turns in their order, and the new content last.  The
\* request of the Gemini provider holds the history turns first, in their
\* order, and then one user content with the persona, the summary under its
\* marker when there is one, and the new content.  A Mistral provider whose
\* primary model is its lowload model sends no persona: its request holds the
\* summary, the history turns and the new content.
C28_RequestOrder ==
    \A i \in 1..Len(dispatch.calls) :
        LET c == dispatch.calls[i]
            n == Len(c.request)
            contents == [k \in 1..n |-> c.request[k].content]
            history == [k \in 1..Len(c.chat_history) |-> c.chat_history[k].parts[1].text]
            summary == IF c.deep_cache_summary # <<>>
                         THEN <<"SUMMARY_MARKER">> \o c.deep_cache_summary ELSE <<>>
            new == <<"new">> \o (IF c.images THEN <<"IMAGE">> ELSE <<>>) IN
        /\ n >= 1
        /\ c.request[n].role = "user"
        /\ IF dispatch.handler.cls = "GeminiProvider"
             THEN /\ Concat(contents) = Concat(history) \o <<"PERSONA">> \o summary \o new
                  /\ c.request[n].content = <<"PERSONA">> \o summary \o new
                  /\ n = Len(c.chat_history) + 1
           ELSE IF /\ dispatch.handler.cls = "MistralProvider"
                   /\ dispatch.handler.primary_model_name = dispatch.handler.lowload_model_name
             THEN /\ Concat(contents) = summary \o Concat(history) \o new
                  /\ \A k \in 1..n : c.request[k].role # "system"
                  /\ c.request[n].content = new
             ELSE /\ Concat(contents) = <<"PERSONA">> \o summary \o Concat(history) \o new
                  /\ c.request[1].role = "system"
                  /\ c.request[n].content = new

\* a fallback call of an OpenAI-compatible provider with a summary and two
\* history turns: five messages, the summary second, the new text last and
\* without the image the secondary model cannot read
C28_Witness ==
    /\ dispatch.handler.cls = "OpenAICompatibleProvider"
    /\ Len(dispatch.calls) = 2
    /\ dispatch.ctx.has_images
    /\ dispatch.calls[2].request =
         << [role |-> "system", content |-> <<"PERSONA">>],
            [role |-> "user", content |-> <<"SUMMARY_MARKER", "- likes cats">>],
            [role |-> "user", content |-> <<"q">>],
            [role |-> "assistant", content |-> <<"ok">>],
            [role |-> "user", content |-> <<"new">>] >>

\* ========================================== entries save_cache leaves out
\* the window file of channel c1 holds an entry that load_cache returns with no
\* part (its only part is an image that can not be decoded, or a part that is
\* neither a text nor an image), an entry without 'role', or an entry without
\* 'parts', each followed by a well-formed turn
InitInvalidEntries ==
    /\ CACHE_LIMIT = 2
    /\ \E entry \in { [role |-> "user", id |-> -1,
                       parts |-> <<[inline_data |->
                                      [mime_type |-> "image/png",
                                       data |-> Str(<<19, 22, 5, 46, 1>>)]]>>],
                      [role |-> "user", id |-> -1,
                       parts |-> <<[function_call |-> <<"f">>]>>],
                      [id |-> -1, parts |-> <<[text |-> <<"hello">>]>>],
                      [role |-> "user", id |-> -1] } :
          cache = [ch \in Channels |->
                     IF ch = "c1" THEN <<entry, Turn("model", <<"ok">>, 0)>> ELSE <<>>]
    /\ handoffs = <<>>
    /\ req = [r \in Reqs |-> IdleReq]
    /\ nreq = 0
    /\ InitUI
    /\ appended = [ch \in Channels |-> <<>>]
    /\ last_save = NoSave
    /\ InitProvider
    /\ InitNoCompaction

SpecInvalidEntries == InitInvalidEntries /\ [][NextAttach]_vars

\* C29: every write of a window file leaves a file in which each turn has a
\* role and at least one part, and the file holds one turn for each turn of
\* the window to save that has a role and a part save_cache can write (a text,
\* or an image whose data is bytes); the other turns are not written.
C29_WrittenTurnsHaveRoleAndPart ==
    [][ \A ch \in Channels :
          cache'[ch] # cache[ch] =>
            LET writable(p) == \/ "text" \in DOMAIN p
                               \/ /\ "inline_data" \in DOMAIN p
                                  /\ p.inline_data.data.type = "bytes"
                valid(entry) == /\ "role" \in DOMAIN entry
                                /\ "parts" \in DOMAIN entry
                                /\ \E i \in 1..Len(entry.parts) : writable(entry.parts[i])
                kept == SelectSeq(last_save'.to_save, valid) IN
            /\ last_save'.channel_id = ch
            /\ \A i \in 1..Len(cache'[ch]) :
                 /\ "role" \in DOMAIN cache'[ch][i]
                 /\ "parts" \in DOMAIN cache'[ch][i]
                 /\ cache'[ch][i].parts # <<>>
            /\ Len(cache'[ch]) = Len(kept)
            /\ \A i \in 1..Len(kept) :
                 /\ cache'[ch][i].role = kept[i].role
                 /\ cache'[ch][i].id = kept[i].id ]_vars

\* a mention with an image was answered on channel c1, whose window file began
\* with an entry that had no part left after the load: four turns went to
\* save_cache and three were written
C29_Witness ==
    /\ last_save # NoSave
    /\ last_save.channel_id = "c1"
    /\ Len(last_save.to_save) = 4
    /\ "parts" \in DOMAIN last_save.to_save[1]
    /\ last_save.to_save[1].parts = <<>>
    /\ Len(cache["c1"]) = 3
    /\ Len(cache["c1"][2].parts) = 2

\* ================================== the turns of an answered request
\* C30: when handle_mention finishes a cache-mode request whose response is
\* not an error message, while no other request of the channel is between its
\* load and its save, the window file of the channel ends with the user turn
\* and the model turn of the request.
C30_WindowEndsWithRequestTurns ==
    [][ \A r \in Reqs, text \in ResponseTexts :
          ( /\ MentionRespond(r, text)
            /\ ~is_error_message(text)
            /\ \A q \in Reqs \ {r} :
                 req[q].pc = "idle" \/ req[q].channel_id # req[r].channel_id )
          => LET window == decoded_cache(cache'[req[r].channel_id])
                 last == Len(window) IN
             /\ last >= 2
             /\ window[last - 1].role = "user"
             /\ window[last - 1].id = 2 * req[r].n - 1
             /\ window[last] = Turn("model", text, 2 * req[r].n) ]_vars

\* =============================================== the life of a summary
\* no summary file exists; channel c2 has a window of two turns, channel c1 has
\* none; the Gemini provider is active and a Mistral provider can be switched to
InitLifecycle ==
    /\ CACHE_LIMIT \in 0..1
    /\ cache = [ch \in Channels |->
                  IF ch = "c2"
                    THEN <<Turn("user", <<"hello">>, -1), Turn("model", <<"ok">>, 0)>>
                    ELSE <<>>]
    /\ handoffs = <<>>
    /\ req = [r \in Reqs |-> IdleReq]
    /\ nreq = 0
    /\ InitUI
    /\ appended = [ch \in Channels |-> <<>>]
    /\ last_save = NoSave
    /\ InitNoCompaction
    /\ llm_handler = Provider("GeminiProvider", "gemini-pro", "gemini-flash", "gemini-flash")
    /\ manager = [ManagerFor(llm_handler) EXCEPT !.config["MISTRAL"] = "ok"]
    /\ dispatch = IdleDispatch

\* mentions one at a time, the compaction task save_cache created last, one
\* !csum, !cclear and one switch_provider, in any order
NextLifecycle ==
    \/ \E ch \in Channels : nreq < MaxStoreRequests /\ MentionLoad("r1", ch)
    \/ \E text \in {<<"ok">>, <<bot_constants.ERROR_MSG_GEMINI_UNKNOWN>>} :
          MentionRespond("r1", text)
    \/ /\ Len(handoffs) >= 1
       /\ DC_Start("t1", handoffs[Len(handoffs)].channel_id, handoffs[Len(handoffs)].old_history)
    \/ \E o \in StoreOutcomes : DC_Extracted("t1", o)
    \/ DC_Load("t1")
    \/ \E o \in StoreOutcomes : DC_Merged("t1", o)
    \/ DC_Save("t1")
    \/ \E ch \in Channels : CS_Start("t2", ch)
    \/ \E o \in StoreOutcomes : CS_Summarized("t2", o)
    \/ DC_Finished("t1")
    \/ \E ch \in Channels : ClearDeepCache(ch)
    \/ \E n \in {"GEMINI", "MISTRAL"} : manager.ncalls = 0 /\ SwitchProvider(n)

SpecLifecycle == InitLifecycle /\ [][NextLifecycle]_vars

\* C31: the summary file of a channel holds a text only after save_cache has
\* handed turns of that channel to update_deep_cache: no mention, load,
\* switch_provider, !csum or !cclear gives a summary to a channel none of
\* whose turns has left the window.
C31_NoSummaryBeforeOverflow ==
    \A ch \in Channels :
        (deep_cache[ch].exists /\ deep_cache[ch].summary # <<>>)
        => \E i \in 1..Len(handoffs) :
              handoffs[i].channel_id = ch /\ handoffs[i].old_history # <<>>

\* channel c1 has answered a mention, been asked for !csum and seen a switch of
\* the provider without one of its turns leaving the window, and has no
\* summary, while channel c2 has got one from its evicted turns
C31_Witness ==
    /\ appended["c1"] # <<>>
    /\ \A i \in 1..Len(handoffs) : handoffs[i].channel_id = "c2"
    /\ task["t2"].pc = "done"
    /\ task["t2"].channel_id = "c1"
    /\ ~task["t2"].returned.success
    /\ manager.ncalls >= 1
    /\ manager.last.op = "switch_provider"
    /\ ~(deep_cache["c1"].exists /\ deep_cache["c1"].summary # <<>>)
    /\ deep_cache["c2"].exists
    /\ deep_cache["c2"].summary # <<>>

\* =================================================== a backend that is silent
\* the dispatch with the fairness of the program's own steps only: a dispatch
\* that is asked for starts, and a result is handed to the caller; no adapter
\* sets a timeout for its backend call or wraps it in asyncio.wait_for, so
\* nothing makes a call that was made come back
SpecDispatchUnanswered ==
    /\ SpecDispatch
    /\ WF_vars(\E ctx \in Contexts : GenerateResponse(ctx))
    /\ WF_vars(DispatchDone)

\* C32: every dispatch that has made a backend call returns a result, also
\* when the backend never answers.
C32_DispatchReturnsWithoutAnswer ==
    (dispatch.pc \in {"primary", "secondary"}) ~> (dispatch.pc = "done")

\* ============================================== compactions that overlap
\* C33: when two compactions of one channel have both stored a summary, one of
\* them has merged the summary the other one stored with its own extraction
\* and stored the text of the merge: the file holds what both extracted.
C33_OverlappingCompactionsKeepBoth ==
    \A t \in Tasks : \A u \in Tasks \ {t} :
        ( /\ task[t].pc = "done" /\ task[t].saved
          /\ task[u].pc = "done" /\ task[u].saved
          /\ task[t].channel_id = task[u].channel_id )
        => \E a \in {t, u} : \E b \in {t, u} \ {a} :
              /\ task[a].merge_called
              /\ task[a].merge_prompt =
                   [existing_summary |-> task[b].final_summary,
                    new_summary |-> task[a].extracted_summary]
              /\ MergeSucceeded(task[a])
              /\ task[a].final_summary = task[a].merged_raw.text
              /\ deep_cache[task[a].channel_id].summary = task[a].final_summary

\* ======================================= a reset during a compaction
\* C34: a compaction that stores the text of a merge stores it over the
\* summary it has merged: when !cclear has emptied the summary file after the
\* task read it, the task does not write a text made from the cleared summary.
C34_ResetIsNotUndone ==
    [][ \A t \in Tasks :
          (DC_Save(t) /\ MergeSucceeded(task[t])
                      /\ task[t].final_summary = task[t].merged_raw.text)
          => StrOrEmpty(load_deep_cache(task[t].channel_id))
               = task[t].merge_prompt.existing_summary ]_vars

\* ================================================ the registered handlers
\* C35: after every initialize_provider and switch_provider call, an active
\* handler is the handler registered under the active provider name.
C35_ActiveIsRegistered ==
    llm_handler # NoProvider =>
        /\ manager._current_provider_name \in {"GEMINI", "MISTRAL"}
        /\ llm_handler = IF manager._current_provider_name = "GEMINI"
                           THEN manager._gemini_handler
                           ELSE manager._mistral_handler

\* a forced initialize_provider has replaced the Gemini handler that was
\* active, after a switch that failed: the new object is active and registered
C35_Witness ==
    /\ manager.ncalls = 3
    /\ manager.last.op = "initialize_provider"
    /\ manager.last.force
    /\ manager.last.name = "GEMINI"
    /\ manager.last.active_before # NoProvider
    /\ llm_handler # manager.last.active_before
    /\ llm_handler = manager._gemini_handler
    /\ manager._current_provider_name = "GEMINI"
    /\ manager.config["MISTRAL"] # "ok"
    /\ manager.setups["MISTRAL"] >= 1

\* ==================================================== turns come in pairs
\* C36: in every window file each user turn is followed at once by a model
\* turn, whatever text the backend returned for the request, an empty text
\* included.
C36_UserTurnIsAnswered ==
    \A ch \in Channels :
        LET window == decoded_cache(cache[ch]) IN
        \A i \in 1..Len(window) :
            window[i].role = "user"
            => /\ i < Len(window)
               /\ window[i + 1].role = "model"

\* ================================================= the follow-up buttons
\* FollowUpView.button_callback up to its first await: the library starts it
\* for a press on a view that is not stopped; without a provider it answers
\* with an error and returns, otherwise it awaits interaction.response.defer
FU_Press(p) ==
    /\ ~view.stopped
    /\ view.press[p].pc = "idle"
    /\ view' = [view EXCEPT !.press[p].pc =
                               IF llm_handler.cls = "None" THEN "done" ELSE "deferring"]
    /\ UNCHANGED <<cacheVars, dispatchVars, compactVars, manager, poll>>

\* defer has returned: the prompt of the button and the channel are found and
\* the callback awaits original_message.edit(view=None)
FU_Deferred(p) ==
    /\ view.press[p].pc = "deferring"
    /\ view' = [view EXCEPT !.press[p].pc = "editing"]
    /\ UNCHANGED <<cacheVars, dispatchVars, compactVars, manager, poll>>

\* the edit has returned or raised: self.stop(), then load_cache and
\* load_deep_cache, then the call of llm_manager.generate_response
FU_Edited(p) ==
    /\ view.press[p].pc = "editing"
    /\ nreq < MaxRequests
    /\ nreq' = nreq + 1
    /\ view' = [view EXCEPT !.stopped = TRUE,
                            !.generations = @ + 1,
                            !.press[p] = [pc |-> "generating",
                                          chat_history |-> load_cache(view.channel_id),
                                          n |-> nreq + 1]]
    /\ load_cache_heals(view.channel_id)
    /\ load_deep_cache_heals(view.channel_id)
    /\ UNCHANGED <<CACHE_LIMIT, req, appended, task>>
    /\ UNCHANGED <<dispatchVars, manager, poll>>

\* generate_response has returned response_text: a text that is not empty and
\* not an error message is stored with the prompt of the button
FU_Respond(p, response_text) ==
    /\ view.press[p].pc = "generating"
    /\ LET turns == new_turns(view.press[p].n, response_text)
           current_history == view.press[p].chat_history \o turns IN
       IF response_text # <<>> /\ ~is_error_message(response_text)
         THEN /\ save_cache(view.channel_id, current_history)
              /\ appended' = [appended EXCEPT ![view.channel_id] = @ \o turns]
         ELSE UNCHANGED <<cache, handoffs, appended, last_save>>
    /\ view' = [view EXCEPT !.press[p].pc = "done"]
    /\ UNCHANGED <<CACHE_LIMIT, req, nreq>>
    /\ UNCHANGED <<dispatchVars, compactVars, manager, poll>>

\* presses on the buttons of one message, handled as the event loop runs them
NextFollowUp ==
    \/ \E p \in Presses : FU_Press(p)
    \/ \E p \in Presses : FU_Deferred(p)
    \/ \E p \in Presses : FU_Edited(p)
    \/ \E p \in Presses, text \in ResponseTexts : FU_Respond(p, text)

SpecFollowUp == InitCache /\ [][NextFollowUp]_vars

\* C37: the buttons of one message lead to at most one call of
\* llm_manager.generate_response, and at most the two turns of one request
\* are appended to the window, also when a second press arrives while the
\* first is being handled.
C37_OneDispatchPerView ==
    /\ view.generations <= 1
    /\ \A ch \in Channels : Len(appended[ch]) <= 2

\* ================================================================ the poll
\* a variant of the option buttons that adds the vote without looking for an
\* earlier one
Poll_button_callback_adding(user_id, option_index) ==
    /\ ~poll.closed
    /\ option_index \in 1..Len(poll.options)
    /\ LET selected_option == poll.options[option_index] IN
       poll' = [poll EXCEPT !.votes[selected_option] = @ \cup {user_id},
                            !.sent = "voted"]
    /\ UNCHANGED <<cacheVars, dispatchVars, compactVars, manager, view>>

\* PollView.button_callback for a press of user_id on the button of
\* options[option_index]: refused when the poll is closed; a vote for the same
\* option is withdrawn, a vote for another option is moved, otherwise the vote
\* is added.  The votes change before the first await.
Poll_button_callback(user_id, option_index) ==
    /\ option_index \in 1..Len(poll.options)
    /\ LET selected_option == poll.options[option_index]
           voted == {o \in DOMAIN poll.votes : user_id \in poll.votes[o]} IN
       IF poll.closed
         THEN poll' = [poll EXCEPT !.sent = "already closed"]
       ELSE IF voted = {}
         THEN poll' = [poll EXCEPT !.votes[selected_option] = @ \cup {user_id},
                                   !.sent = "voted"]
       ELSE LET option == CHOOSE o \in voted : TRUE IN
            IF option = selected_option
              THEN poll' = [poll EXCEPT !.votes[option] = @ \ {user_id},
                                        !.sent = "withdrawn"]
              ELSE poll' = [poll EXCEPT
                              !.votes = [o \in DOMAIN poll.votes |->
                                           IF o = option THEN poll.votes[o] \ {user_id}
                                           ELSE IF o = selected_option
                                             THEN poll.votes[o] \cup {user_id}
                                           ELSE poll.votes[o]],
                              !.sent = "changed"]
    /\ UNCHANGED <<cacheVars, dispatchVars, compactVars, manager, view>>

\* PollView.close_callback: only the author closes the poll, once
Poll_close_callback(user_id) ==
    /\ IF user_id # "author"
         THEN poll' = [poll EXCEPT !.sent = "only the author"]
       ELSE IF poll.closed
         THEN poll' = [poll EXCEPT !.sent = "already closed"]
       ELSE poll' = [poll EXCEPT !.closed = TRUE, !.sent = "closed"]
    /\ UNCHANGED <<cacheVars, dispatchVars, compactVars, manager, view>>

\* /poll with two or three options, one of them possibly given twice
InitPoll ==
    /\ CACHE_LIMIT = 1
    /\ cache = [ch \in Channels |-> <<>>]
    /\ handoffs = <<>>
    /\ req = [r \in Reqs |-> IdleReq]
    /\ nreq = 0
    /\ appended = [ch \in Channels |-> <<>>]
    /\ last_save = NoSave
    /\ InitProvider
    /\ InitNoCompaction
    /\ view = NewFollowUpView
    /\ \E options \in {<<"a", "b">>, <<"a", "b", "c">>, <<"a", "b", "a">>} :
          poll = NewPollView(options)

NextPoll ==
    \/ \E user_id \in Users, option_index \in 1..3 : Poll_button_callback(user_id, option_index)
    \/ \E user_id \in Users : Poll_close_callback(user_id)

SpecPoll == InitPoll /\ [][NextPoll]_vars

\* C38: each user is among the voters of at most one option, whatever buttons
\* were pressed, and a step taken when the poll is closed changes no vote and
\* leaves the poll closed.
C38_OneVoteAndClosedIsFinal ==
    /\ [](\A u \in Users :
            Cardinality({o \in DOMAIN poll.votes : u \in poll.votes[o]}) <= 1)
    /\ [][poll.closed => (poll'.votes = poll.votes /\ poll'.closed)]_vars

\* the poll was closed with two voters on one option and one on another (one
\* of them had changed a vote), and a press after that was refused
C38_Witness ==
    /\ poll.closed
    /\ poll.sent = "already closed"
    /\ poll.options = <<"a", "b", "a">>
    /\ poll.votes["a"] = {"u1", "u2"}
    /\ poll.votes["b"] = {"author"}

====
